---- MODULE Spec2Model ----
(***************************************************************************)
(* Model of the ployer deployment pipeline:                                *)
(*   crates/ployer-api/src/services/deployment.rs   (DeploymentService)    *)
(*   crates/ployer-db/src/repositories/deployment.rs (DeploymentRepository)*)
(*   crates/ployer-core/src/models/deployment.rs    (DeploymentStatus)     *)
(* Every .await of the executor whose effect another task can observe is   *)
(* one step of the background task; consecutive writes to fields that only *)
(* the task itself touches (build_log, commit_sha) are folded into the     *)
(* step they follow.                                                       *)
(***************************************************************************)
EXTENDS Integers, Sequences, FiniteSets, TLC

\* ---------------------------------------------------------------- bounds
MaxDeployments == 2        \* deployments triggered in one run
MaxCancels == 2            \* cancel_deployment calls in one run
MaxDbFaults == 1           \* database calls that fail in one run
MaxFaultyDeployments == 1  \* deployments in a run in which a database call fails

\* ------------------------------------------------------------- constants
NULL == "null"
\* Option<T> of an id is a set: None is {}, Some(x) is {x}
None == {}
Some(x) == {x}
The(o) == CHOOSE x \in o : TRUE
Apps == {"app1", "app2"}
DeploymentIds == 1..MaxDeployments

\* DeploymentStatus (models/deployment.rs), by its as_str() text
DeploymentStatus ==
    {"queued", "cloning", "building", "deploying",
     "running", "failed", "cancelled", "rolled_back"}

\* Application.port (Option<u16>): app1 exposes a port, app2 does not
AppPort(app) == IF app = "app1" THEN "port" ELSE NULL

\* table environment_variables (EnvVarRepository): the rows of each application;
\* decrypts tells whether crypto::decrypt of value_encrypted succeeds. app1 has
\* one readable variable, app2 one whose ciphertext does not decrypt
EnvVars(app) ==
    IF app = "app1" THEN {[key |-> "KEY", decrypts |-> TRUE]}
    ELSE {[key |-> "BROKEN", decrypts |-> FALSE]}

\* ContainerConfig.env of execute_deployment: `env: None`; the key=value pairs
\* handed to the engine are a set, None is the empty set
ContainerConfigEnv(app) == None

\* DeploymentService.caddy: the routes construct the service with Some(caddy)
CaddyConfigured == TRUE

\* ----------------------------------------------------------------- state
VARIABLES
    rows,        \* table deployments: id -> row
    task,        \* the spawned background task of each deployment (its locals and position)
    containers,  \* container engine: container id -> state
    status_events, \* bus, per deployment_id: the DeploymentStatus events in publication order
    log_events,  \* bus, per deployment_id: the DeploymentLog lines in publication order
    domains,     \* table domains in insertion order: id -> row (deleted rows stay marked)
    routes,      \* reverse proxy: applications whose route was added
    cancel_call, \* the cancel_deployment call between its cancel() and its return
    cancelled_early, \* history: deployments whose cancel returned true from queued or cloning
    cancels,     \* cancel_deployment calls made so far
    dbFaults,    \* database calls that have failed so far
    \* health controller (services/app_health_monitor.rs)
    health_checks,        \* table health_checks, in insertion order
    health_check_results, \* table health_check_results, per application, in checked_at order
    result_container_ids, \* column container_id of health_check_results, row by row
    app_health_events,    \* bus, per app_id: the AppHealth statuses in publication order
    restarts,             \* container engine: the restart_container calls, per application
    running_container,    \* per application: container_id of its latest running deployment
    health_errors,        \* get_recent_results calls that have failed so far
    \* server liveness monitor (services/health_monitor.rs)
    servers,        \* table servers: id -> row
    server_events,  \* bus, per server_id: the ServerHealth statuses in publication order
    monitor,        \* the monitor task: its position in check_servers and its locals
    now,            \* chrono::Utc::now(), as the number of status writes made so far
    ticks,          \* check_servers calls so far
    validations,    \* validate_server requests so far
    \* webhook ingress (routes/webhooks.rs, services/webhook.rs)
    webhooks,           \* table webhooks: application -> row
    docker,             \* AppState.docker is Some(..)
    webhook_deliveries, \* table webhook_deliveries, in delivered_at order
    webhook_request,    \* the webhook request handled last and its response
    pushes,             \* webhook requests handled so far
    verification,       \* one call of verify_*_signature: its arguments and result
    \* domain management (routes/domains.rs, repositories/domain.rs)
    primary_calls,      \* the set_primary_domain requests: position and locals of each
    \* per-application configuration (routes/monitoring.rs, routes/applications.rs)
    upsert_calls,       \* the configure_health_check requests: position and locals of each
    deploy_keys,        \* table deploy_keys, in insertion order
    key_calls,          \* the generate_deploy_key requests: position and locals of each
    \* event bus and its websocket subscribers (app_state.rs, websocket/mod.rs)
    published,          \* events sent on ws_broadcast so far; the n-th event is n
    subscribers,        \* per connection: its state, its receiver's cursor, what its socket got
    \* secrets at rest (ployer-core crypto.rs)
    sealing,            \* one secret: its plaintext and key, the sealed value, what decrypt gave
    \* stats aggregator (services/stats_aggregator.rs, repositories/container_stats.rs)
    clock,              \* Utc::now(), in hours
    container_stats,    \* table container_stats: the rows
    samples,            \* rows recorded so far
    gc_runs,            \* cleanup_old_stats runs so far
    \* environment variables (routes/applications.rs, repositories/env_var.rs)
    environment_variables, \* table environment_variables, in insertion order
    env_calls,             \* requests that write environment variables, so far
    \* one deployment executed twice, on two buses (services/deployment.rs)
    twin_runs,          \* the two executions: position, durable effects, result
    twin_channels,      \* the bus of each execution: its receiver and how far it lags
    twin_faults         \* calls of the deployment that have failed so far

\* the deployment pipeline's variables
pvars ==
    <<rows, task, containers, status_events, log_events, domains, routes,
      cancel_call, cancelled_early, cancels, dbFaults>>

\* the health controller's variables
hvars ==
    <<health_checks, health_check_results, result_container_ids, app_health_events,
      restarts, running_container, health_errors>>

\* the server monitor's variables
svars == <<servers, server_events, monitor, now, ticks, validations>>

\* the webhook ingress's variables
wvars == <<webhooks, docker, webhook_deliveries, webhook_request, pushes, verification>>

\* domain management's variables (the table itself is the pipeline's domains)
dvars == <<primary_calls>>

\* the variables of the subsystems around the four above
\* the variables of health-check configuration and deploy-key generation
\* (the table health_checks is the health controller's)
cvars == <<upsert_calls, deploy_keys, key_calls>>

\* the event bus's variables
bvars == <<published, subscribers>>

\* the variable of the encryption of secrets
kvars == <<sealing>>

\* the stats aggregator's variables
gvars == <<clock, container_stats, samples, gc_runs>>

\* the variables of the environment-variable routes
evars == <<environment_variables, env_calls>>

\* the variables of the two executions of one deployment
tvars == <<twin_runs, twin_channels, twin_faults>>

xvars == <<dvars, cvars, bvars, kvars, gvars, evars, tvars>>

vars == <<pvars, hvars, svars, wvars, xvars>>

\* ------------------------------------------------- DomainRepository
\* format!("{}.{}", application.name, base_domain)
Subdomain(app) == IF app = "app1" THEN "app1.base" ELSE "app2.base"

\* the rows of the table: ids of the rows not deleted
LiveDomains(table) == {i \in DOMAIN table : ~table[i].deleted}

\* find_by_domain: the id of the row with that name, as an Option
find_by_domain(table, name) == {i \in LiveDomains(table) : table[i].domain = name}

\* find_by_id
find_by_id(table, id) == {i \in LiveDomains(table) : i = id}

\* create: the INSERT, is_primary as given
domain_create(table, app, name, is_primary) ==
    Append(table, [application_id |-> app, domain |-> name,
                   is_primary |-> is_primary, deleted |-> FALSE])

\* delete_by_domain
delete_by_domain(table, name) ==
    [i \in DOMAIN table |->
        IF table[i].domain = name THEN [table[i] EXCEPT !.deleted = TRUE] ELSE table[i]]

\* set_primary, first UPDATE: is_primary = 0 WHERE application_id = ?
unset_primary(table, app) ==
    [i \in DOMAIN table |->
        IF ~table[i].deleted /\ table[i].application_id = app
        THEN [table[i] EXCEPT !.is_primary = FALSE] ELSE table[i]]

\* set_primary, second UPDATE: is_primary = 1 WHERE id = ?
mark_primary(table, id) ==
    [i \in DOMAIN table |->
        IF ~table[i].deleted /\ i = id
        THEN [table[i] EXCEPT !.is_primary = TRUE] ELSE table[i]]

\* ------------------------------------------------- DeploymentRepository
\* create: the INSERT of a queued row
NewRow(app) ==
    [application_id |-> app, status |-> "queued", build_log |-> <<>>,
     container_id |-> None, commit_sha |-> NULL, finished_at |-> NULL]

\* update_status with Running missing from the matches! that sets finished_at
update_status_RunningNotFinished(rs, id, status) ==
    IF id \in DOMAIN rs
    THEN [rs EXCEPT ![id].status = status,
                    ![id].finished_at =
                        IF status \in {"failed", "cancelled"} THEN "ts" ELSE @]
    ELSE rs

\* update_status: finished_at is written for running, failed and cancelled only
update_status(rs, id, status) ==
    IF id \in DOMAIN rs
    THEN [rs EXCEPT ![id].status = status,
                    ![id].finished_at =
                        IF status \in {"running", "failed", "cancelled"} THEN "ts" ELSE @]
    ELSE rs

\* CommitInfo.message (git2 commit.message()) is the raw commit message: a
\* subject alone, or, as git writes it, the subject and a newline
CommitLine == "Commit: sha - subject"
CommitLineLF == "Commit: sha - subject<LF>"

\* the text of a log line cut at its newline characters
Segments(line) == IF line = CommitLineLF THEN <<CommitLine, "">> ELSE <<line>>

\* append_log: build_log = COALESCE(build_log || line_with_newline, line_with_newline).
\* build_log is a text of newline-terminated lines, kept as the sequence of its
\* lines; <<>> is the NULL log
append_log(rs, id, line) ==
    IF id \in DOMAIN rs THEN [rs EXCEPT ![id].build_log = @ \o Segments(line)] ELSE rs

\* set_container_id whose UPDATE matches no row: Ok, nothing written
set_container_id_NoRow(rs, id, cid) == rs

\* set_container_id: UPDATE deployments SET container_id = ? WHERE id = ?
set_container_id(rs, id, cid) ==
    IF id \in DOMAIN rs THEN [rs EXCEPT ![id].container_id = Some(cid)] ELSE rs

\* get_latest_running: WHERE application_id = ? AND status = 'running'
\* ORDER BY started_at DESC LIMIT 1 (ids are issued in started_at order)
RunningOf(rs, app) ==
    {i \in DOMAIN rs : rs[i].application_id = app /\ rs[i].status = "running"}

get_latest_running(rs, app) ==
    IF RunningOf(rs, app) = {} THEN None
    ELSE Some(CHOOSE i \in RunningOf(rs, app) : \A j \in RunningOf(rs, app) : j <= i)

\* cancel: the guarded UPDATE; rows_affected() > 0 is the result
CancelGuard(rs, id) ==
    /\ id \in DOMAIN rs
    /\ rs[id].status \notin {"running", "failed", "cancelled", "rolled_back"}

\* cancel with 'running' missing from the NOT IN list
cancel_RunningNotExcluded(rs, id) ==
    IF id \in DOMAIN rs /\ rs[id].status \notin {"failed", "cancelled", "rolled_back"}
    THEN [rows |-> [rs EXCEPT ![id].status = "cancelled", ![id].finished_at = "ts"],
          affected |-> TRUE]
    ELSE [rows |-> rs, affected |-> FALSE]

cancel(rs, id) ==
    IF CancelGuard(rs, id)
    THEN [rows |-> [rs EXCEPT ![id].status = "cancelled", ![id].finished_at = "ts"],
          affected |-> TRUE]
    ELSE [rows |-> rs, affected |-> FALSE]

\* ---------------------------------------------------------------- events
\* WsEvent::DeploymentStatus{deployment_id, app_id, status} is kept as its status,
\* WsEvent::DeploymentLog{deployment_id, line} as its line, each in the sequence
\* of its deployment_id

\* send_log: append_log (its error is dropped), then publish DeploymentLog.
\* st is the pair [rows, bus] (bus: the DeploymentLog lines); dbok tells whether
\* the append reached the table.
send_log(st, d, msg, dbok) ==
    [rows |-> IF dbok THEN append_log(st.rows, d, msg) ELSE st.rows,
     bus |-> [st.bus EXCEPT ![d] = Append(@, msg)]]

\* the database calls of one step that fail: a subset of 1..n within the budget.
\* Failures are injected in runs of at most MaxFaultyDeployments deployments.
FaultBudget ==
    IF Len(rows) <= MaxFaultyDeployments THEN MaxDbFaults - dbFaults ELSE 0

FaultSets(n) == {f \in SUBSET (1..n) : Cardinality(f) <= FaultBudget}

\* ------------------------------------------------------------------ Init
\* bounds of the health controller's runs
MaxResults == 4      \* health_check_results rows in one run
MaxContainers == 2   \* containers an application runs one after the other
MaxThreshold == 2    \* largest unhealthy_threshold configured

\* the health controller before its first tick: no result, no running deployment
\* HealthCheck::default(), the values a health check is usually given
DefaultHealthCheck ==
    [interval_seconds |-> 30, timeout_seconds |-> 5,
     healthy_threshold |-> 2, unhealthy_threshold |-> 3]

\* a row of health_checks for the application with the request's numbers
HealthCheckRow(app, req) ==
    [application_id |-> app, interval_seconds |-> req.interval_seconds,
     timeout_seconds |-> req.timeout_seconds,
     healthy_threshold |-> req.healthy_threshold,
     unhealthy_threshold |-> req.unhealthy_threshold]

\* HealthCheckRepository::get: fetch_optional of the rows WHERE application_id = ?,
\* the first of them
health_check_get(table, app) ==
    LET ids == {i \in DOMAIN table : table[i].application_id = app}
    IN IF ids = {} THEN None
       ELSE Some(table[CHOOSE i \in ids : \A j \in ids : i <= j])

\* every application configured with the defaults and unhealthy_threshold t
ConfiguredFor(t) ==
    [i \in 1..2 |->
        HealthCheckRow(IF i = 1 THEN "app1" ELSE "app2",
                       [DefaultHealthCheck EXCEPT !.unhealthy_threshold = t])]

HealthInit ==
    /\ health_check_results = [a \in Apps |-> <<>>]
    /\ result_container_ids = [a \in Apps |-> <<>>]
    /\ app_health_events = [a \in Apps |-> <<>>]
    /\ restarts = [a \in Apps |-> <<>>]
    /\ running_container = [a \in Apps |-> None]
    /\ health_errors = 0

PipelineInit ==
    /\ rows = <<>>
    /\ task = <<>>
    /\ containers = [d \in DeploymentIds |-> "absent"]
    /\ status_events = [d \in DeploymentIds |-> <<>>]
    /\ log_events = [d \in DeploymentIds |-> <<>>]
    /\ domains = <<>>
    /\ routes = {}
    /\ cancel_call = None
    /\ cancelled_early = {}
    /\ cancels = 0
    /\ dbFaults = 0

\* bounds of the server monitor's runs
MaxTicks == 2         \* check_servers calls in one run
MaxValidations == 2   \* validate_server requests in one run

ServerStatus == {"online", "offline", "unknown"}

\* the servers of the table: the local one and a remote one
ServerIds == {"local", "remote"}

\* ServerRepository::create: status unknown, last_seen_at NULL (0)
ServerInit ==
    /\ servers = [s \in ServerIds |->
                    [is_local |-> s = "local", status |-> "unknown", last_seen_at |-> 0]]
    /\ server_events = [s \in ServerIds |-> <<>>]
    /\ monitor = [pc |-> "idle", snapshot |-> <<>>, queue |-> <<>>, checked |-> NULL,
                  reachable |-> FALSE, new_status |-> "unknown", result |-> "Ok"]
    /\ now = 0
    /\ ticks = 0
    /\ validations = 0

\* bounds of the webhook ingress's runs
MaxPushes == 3          \* webhook requests handled in one run
MaxVerifications == 2   \* times one credential is presented to verify_*_signature

\* the secrets create_webhook has generated
Secrets == {"secret1", "secret2"}

\* table webhooks: app1 has an enabled webhook, app2 a disabled one; no request
\* handled yet
WebhookInit ==
    /\ webhooks = [a \in Apps |->
                     [secret |-> IF a = "app1" THEN "secret1" ELSE "secret2",
                      enabled |-> a = "app1"]]
    /\ webhook_deliveries = <<>>
    /\ webhook_request = None
    /\ pushes = 0

\* no verify_*_signature call under way
NoVerification == None

MaxDomains == 2
MaxPrimaryCalls == 2

\* no set_primary_domain request has arrived
DomainInit ==
    primary_calls = [c \in 1..MaxPrimaryCalls |-> [pc |-> "idle", id |-> 0, application_id |-> NULL]]

\* the subsystems around the pipeline, the health controller, the server
\* monitor and the webhook ingress, at start
MaxUpserts == 2
MaxKeyCalls == 2

\* no configure_health_check and no generate_deploy_key request has arrived
ConfigInit ==
    /\ upsert_calls = [c \in 1..MaxUpserts |-> [pc |-> "idle", application_id |-> NULL,
                                                req |-> DefaultHealthCheck, existing |-> FALSE]]
    /\ deploy_keys = <<>>
    /\ key_calls = [c \in 1..MaxKeyCalls |-> [pc |-> "idle", application_id |-> NULL]]

MaxEvents == 4
\* broadcast::channel(256), scaled to the events of a run
BusCapacity == 2
Subscribers == {"conn1", "conn2"}

\* nothing has been published and no websocket is connected
BusInit ==
    /\ published = 0
    /\ subscribers = [s \in Subscribers |->
                        [state |-> "absent", since |-> 0, next |-> 1,
                         received |-> <<>>, cause |-> NULL]]

\* nothing is being sealed
NoSealing == None

MaxClock == 72
MaxSamples == 3
MaxGcRuns == 2
HoursPerDay == 24

\* the aggregator starts on the second day with an empty table
StatsInit ==
    /\ clock = HoursPerDay
    /\ container_stats = {}
    /\ samples = 0
    /\ gc_runs = 0

MaxEnvCalls == 2
MaxKeyLen == 2

\* no environment variable is stored before the first request
EnvInit ==
    /\ environment_variables = <<>>
    /\ env_calls = 0

MaxStepFaults == 1

\* both executions at the first statement of execute_deployment, no websocket
\* connected to either bus
TwinInit ==
    /\ twin_runs = [r \in 1..2 |-> [pc |-> 1, effects |-> <<>>, result |-> NULL]]
    /\ twin_channels = [r \in 1..2 |->
                          [receiver |-> "absent", lag |-> 0,
                           refused |-> FALSE, overrun |-> FALSE]]
    /\ twin_faults = 0

XInit ==
    /\ DomainInit /\ ConfigInit /\ BusInit /\ sealing = NoSealing /\ StatsInit /\ EnvInit
    /\ TwinInit

\* the state after construction: empty tables, every application's health check
\* configured with the same threshold
Init ==
    /\ PipelineInit
    /\ HealthInit
    /\ ServerInit
    /\ WebhookInit
    /\ docker = TRUE
    /\ XInit
    /\ verification = NoVerification
    /\ health_checks = ConfiguredFor(MaxThreshold)

\* ------------------------------------------------------- task bookkeeping
InFlight(d) == d \in DOMAIN task /\ task[d].pc # "exited"

Exit(t, result) == [t EXCEPT !.pc = "exited", !.result = result]

\* deployments a run may trigger: fewer once a database call has failed
DeploymentLimit == IF dbFaults > 0 THEN MaxFaultyDeployments ELSE MaxDeployments

\* a step of the deployment pipeline leaves the other subsystems alone
OtherSubsystems == UNCHANGED <<hvars, svars, wvars, xvars>>

\* DeploymentService::deploy: create the row, spawn the task. created = FALSE:
\* the INSERT fails and deploy returns Err
Deployed(app, git_url, created) ==
    IF ~created
    THEN UNCHANGED <<rows, task>>
    ELSE LET others == {o \in DOMAIN task :
                          InFlight(o) /\ rows[o].application_id = app}
         IN /\ rows' = Append(rows, NewRow(app))
            /\ task' = Append(task,
                 [pc |-> "spawned", git_url |-> git_url, image_built |-> FALSE,
                  prev |-> None, prev_container_id |-> None,
                  cleanup_failed |-> {}, result |-> NULL, env |-> None,
                  add_route |-> "not called",
                  in_flight_at_trigger |-> others,
                  cancelled_at_trigger |->
                      {o \in DOMAIN rows :
                          /\ rows[o].application_id = app
                          /\ rows[o].status = "cancelled"
                          /\ containers[o] \in {"created", "running"}},
                  running_at_trigger |-> RunningOf(rows, app)])

\* routes/deployments.rs trigger_deployment: deploy for the application
deploy(app, git_url) ==
    /\ Len(rows) < DeploymentLimit
    /\ \E f \in FaultSets(1) :
        /\ dbFaults' = dbFaults + Cardinality(f)
        /\ Deployed(app, git_url, 1 \notin f)
    /\ UNCHANGED <<containers, status_events, log_events, domains, routes,
                   cancel_call, cancelled_early, cancels>>
    /\ OtherSubsystems

Trigger == \E app \in Apps, git_url \in {NULL, "url"} : deploy(app, git_url)

At(d, pc) == d \in DOMAIN task /\ task[d].pc = pc

PipelineFrame == UNCHANGED <<cancel_call, cancelled_early, cancels>> /\ OtherSubsystems

\* execute_deployment, step 1 (first half): the git_url test, status -> cloning
StartPipeline(d) ==
    /\ At(d, "spawned")
    /\ IF task[d].git_url = NULL
       THEN /\ task' = [task EXCEPT ![d] = Exit(@, "Application has no git_url configured")]
            /\ UNCHANGED <<rows, log_events, dbFaults>>
       ELSE \E f \in FaultSets(2) :
            IF 1 \in f
            THEN /\ f = {1}
                 /\ dbFaults' = dbFaults + 1
                 /\ task' = [task EXCEPT ![d] = Exit(@, "database error")]
                 /\ UNCHANGED <<rows, log_events>>
            ELSE LET st == send_log([rows |-> update_status(rows, d, "cloning"), bus |-> log_events],
                                    d, "Cloning repository", 2 \notin f)
                 IN /\ dbFaults' = dbFaults + Cardinality(f)
                    /\ rows' = st.rows
                    /\ log_events' = st.bus
                    /\ task' = [task EXCEPT ![d].pc = "clone"]
    /\ UNCHANGED <<containers, domains, routes, status_events>>
    /\ PipelineFrame

\* step 1 (second half): create_dir_all, clone_repo, get_latest_commit, commit UPDATE
Clone(d) ==
    /\ At(d, "clone")
    /\ \/ \E e \in {"create_dir_all failed", "clone failed", "get_latest_commit failed"} :
            /\ task' = [task EXCEPT ![d] = Exit(@, e)]
            /\ UNCHANGED <<rows, log_events, dbFaults>>
       \/ \E f \in FaultSets(2), line \in {CommitLine, CommitLineLF} :
            LET st == send_log([rows |-> rows, bus |-> log_events], d, line, 1 \notin f)
            IN /\ dbFaults' = dbFaults + Cardinality(f)
               /\ log_events' = st.bus
               /\ IF 2 \in f
                  THEN /\ rows' = st.rows
                       /\ task' = [task EXCEPT ![d] = Exit(@, "database error")]
                  ELSE /\ rows' = [st.rows EXCEPT ![d].commit_sha = "sha"]
                       /\ task' = [task EXCEPT ![d].pc = "mark_building"]
    /\ UNCHANGED <<containers, domains, routes, status_events>>
    /\ PipelineFrame

\* a status write of the pipeline followed by a log line: `update_status(..).await?; send_log(..)`
StatusStep(d, from, status, msg, to) ==
    /\ At(d, from)
    /\ \E f \in FaultSets(2) :
        IF 1 \in f
        THEN /\ f = {1}
             /\ dbFaults' = dbFaults + 1
             /\ task' = [task EXCEPT ![d] = Exit(@, "database error")]
             /\ UNCHANGED <<rows, log_events>>
        ELSE LET st == send_log([rows |-> update_status(rows, d, status), bus |-> log_events],
                                d, msg, 2 \notin f)
             IN /\ dbFaults' = dbFaults + Cardinality(f)
                /\ rows' = st.rows
                /\ log_events' = st.bus
                /\ task' = [task EXCEPT ![d].pc = to]
    /\ UNCHANGED <<containers, domains, routes, status_events>>
    /\ PipelineFrame

\* step 2: status -> building
MarkBuilding(d) ==
    StatusStep(d, "mark_building", "building", "Building Docker image...", "build")

\* step 2: build_image and the streamed lines. build_image is Err only when the
\* context tar cannot be made; an engine build error arrives as an "ERROR: .." line
Build(d) ==
    /\ At(d, "build")
    /\ \/ /\ task' = [task EXCEPT ![d] = Exit(@, "build_image failed")]
          /\ UNCHANGED <<rows, log_events, dbFaults>>
       \/ \E built \in BOOLEAN, f \in FaultSets(2) :
            LET s1 == send_log([rows |-> rows, bus |-> log_events], d,
                               IF built THEN "build output" ELSE "ERROR", 1 \notin f)
                s2 == send_log(s1, d, "Build completed successfully", 2 \notin f)
            IN /\ dbFaults' = dbFaults + Cardinality(f)
               /\ rows' = s2.rows
               /\ log_events' = s2.bus
               /\ task' = [task EXCEPT ![d].pc = "mark_deploying", ![d].image_built = built]
    /\ UNCHANGED <<containers, domains, routes, status_events>>
    /\ PipelineFrame

\* step 3: status -> deploying
MarkDeploying(d) ==
    StatusStep(d, "mark_deploying", "deploying", "Creating container...", "create")

\* step 3: create_container, set_container_id. The container of deployment d has id d.
Create(d) ==
    /\ At(d, "create")
    /\ \/ /\ task' = [task EXCEPT ![d] = Exit(@, "create_container failed")]
          /\ UNCHANGED <<rows, log_events, containers, dbFaults>>
       \/ /\ task[d].image_built
          /\ containers' = [containers EXCEPT ![d] = "created"]
          /\ \E f \in FaultSets(2) :
              IF 1 \in f
              THEN /\ f = {1}
                   /\ dbFaults' = dbFaults + 1
                   /\ task' = [task EXCEPT ![d] =
                        Exit([@ EXCEPT !.env = ContainerConfigEnv(rows[d].application_id)],
                             "database error")]
                   /\ UNCHANGED <<rows, log_events>>
              ELSE LET st == send_log([rows |-> set_container_id(rows, d, d), bus |-> log_events],
                                      d, "Container created", 2 \notin f)
                   IN /\ dbFaults' = dbFaults + Cardinality(f)
                      /\ rows' = st.rows
                      /\ log_events' = st.bus
                      /\ task' = [task EXCEPT ![d].pc = "start",
                                              ![d].env = ContainerConfigEnv(rows[d].application_id)]
    /\ UNCHANGED <<domains, routes, status_events>>
    /\ PipelineFrame

\* start_container with its error dropped (`let _ =`) instead of propagated with `?`
Start_ErrorDropped(d) ==
    /\ At(d, "start")
    /\ \E started \in {o \in BOOLEAN : o => containers[d] = "created"}, f \in FaultSets(2) :
          LET s1 == send_log([rows |-> rows, bus |-> log_events], d, "Container started", 1 \notin f)
              s2 == send_log(s1, d, "Waiting for health check...", 2 \notin f)
          IN /\ containers' = IF started THEN [containers EXCEPT ![d] = "running"]
                              ELSE containers
             /\ dbFaults' = dbFaults + Cardinality(f)
             /\ rows' = s2.rows
             /\ log_events' = s2.bus
             /\ task' = [task EXCEPT ![d].pc = "swap"]
    /\ UNCHANGED <<domains, routes, status_events>>
    /\ PipelineFrame

\* step 3 and 4: start_container, the 5 s grace delay
Start(d) ==
    /\ At(d, "start")
    /\ \/ /\ task' = [task EXCEPT ![d] = Exit(@, "start_container failed")]
          /\ UNCHANGED <<rows, log_events, containers, dbFaults>>
       \/ /\ containers[d] = "created"
          /\ containers' = [containers EXCEPT ![d] = "running"]
          /\ \E f \in FaultSets(2) :
              LET s1 == send_log([rows |-> rows, bus |-> log_events], d, "Container started", 1 \notin f)
                  s2 == send_log(s1, d, "Waiting for health check...", 2 \notin f)
              IN /\ dbFaults' = dbFaults + Cardinality(f)
                 /\ rows' = s2.rows
                 /\ log_events' = s2.bus
                 /\ task' = [task EXCEPT ![d].pc = "swap"]
    /\ UNCHANGED <<domains, routes, status_events>>
    /\ PipelineFrame

\* container engine: a call on a container that does not exist is an error
Exists(cid) == containers[cid] \in {"created", "running", "stopped"}

\* step 5: get_latest_running and the two tests on the previous deployment's container
SwapLookup(d) ==
    /\ At(d, "swap")
    /\ \E f \in FaultSets(3) :
        LET s1 == send_log([rows |-> rows, bus |-> log_events], d, "Performing rolling update...", 1 \notin f)
            prev == IF 2 \in f THEN None ELSE get_latest_running(rows, rows[d].application_id)
            found == /\ prev # None
                     /\ rows[The(prev)].container_id # None
                     /\ rows[The(prev)].container_id # Some(d)
            s2 == send_log(s1, d, "Stopping old container", 3 \notin f)
        IN IF found
           THEN /\ dbFaults' = dbFaults + Cardinality(f)
                /\ rows' = s2.rows
                /\ log_events' = s2.bus
                /\ task' = [task EXCEPT ![d].pc = "stop_old", ![d].prev = prev,
                                        ![d].prev_container_id = rows[The(prev)].container_id]
           ELSE /\ 3 \notin f
                /\ dbFaults' = dbFaults + Cardinality(f)
                /\ rows' = s1.rows
                /\ log_events' = s1.bus
                /\ task' = [task EXCEPT ![d].pc = "domain"]
    /\ UNCHANGED <<containers, domains, routes, status_events>>
    /\ PipelineFrame

\* the cleanup failure propagated with `?` instead of being demoted to a warning
CleanupResult_Propagated(t, ok, what, next) ==
    IF ok THEN [t EXCEPT !.pc = next]
    ELSE Exit([t EXCEPT !.cleanup_failed = @ \cup {what}], "cleanup failed")

\* `if let Err(e) = docker.stop_container/remove_container(..)`: either way the
\* task goes on to its next step; cleanup_failed records which calls failed
CleanupResult(t, ok, what, next) ==
    IF ok THEN [t EXCEPT !.pc = next]
    ELSE [t EXCEPT !.pc = next, !.cleanup_failed = @ \cup {what}]

\* step 5: stop_container(prev, 10 s); an error is a warning line
StopOld(d) ==
    /\ At(d, "stop_old")
    /\ LET cid == The(task[d].prev_container_id) IN
       \E ok \in {o \in BOOLEAN : o => Exists(cid)}, f \in FaultSets(1) :
        LET st == send_log([rows |-> rows, bus |-> log_events], d,
                           IF ok THEN "Old container stopped"
                           ELSE "Warning: Failed to stop old container", 1 \notin f)
        IN /\ dbFaults' = dbFaults + Cardinality(f)
           /\ rows' = st.rows
           /\ log_events' = st.bus
           /\ containers' = IF ok /\ containers[cid] = "running"
                            THEN [containers EXCEPT ![cid] = "stopped"] ELSE containers
           /\ task' = [task EXCEPT ![d] = CleanupResult(@, ok, "stop", "remove_old")]
    /\ UNCHANGED <<domains, routes, status_events>>
    /\ PipelineFrame

\* step 5: remove_container(prev, force = true); an error is a warning line
RemoveOld(d) ==
    /\ At(d, "remove_old")
    /\ LET cid == The(task[d].prev_container_id) IN
       \E ok \in {o \in BOOLEAN : o => Exists(cid)}, f \in FaultSets(1) :
        LET st == send_log([rows |-> rows, bus |-> log_events], d,
                           IF ok THEN "Old container removed"
                           ELSE "Warning: Failed to remove old container", 1 \notin f)
        IN /\ dbFaults' = dbFaults + Cardinality(f)
           /\ rows' = st.rows
           /\ log_events' = st.bus
           /\ containers' = IF ok THEN [containers EXCEPT ![cid] = "removed"] ELSE containers
           /\ task' = [task EXCEPT ![d] = CleanupResult(@, ok, "remove", "mark_old")]
    /\ UNCHANGED <<domains, routes, status_events>>
    /\ PipelineFrame

\* step 5: `let _ = update_status(prev, RolledBack)`
MarkOld(d) ==
    /\ At(d, "mark_old")
    /\ \E f \in FaultSets(1) :
        /\ dbFaults' = dbFaults + Cardinality(f)
        /\ rows' = IF 1 \in f THEN rows ELSE update_status(rows, The(task[d].prev), "rolled_back")
    /\ task' = [task EXCEPT ![d].pc = "domain"]
    /\ UNCHANGED <<containers, log_events, domains, routes, status_events>>
    /\ PipelineFrame

\* step 5.5: the subdomain row (domain is UNIQUE) and the proxy route
ConfigureDomain(d) ==
    /\ At(d, "domain")
    /\ LET app == rows[d].application_id IN
       \E f \in FaultSets(4), caddy_ok \in BOOLEAN :
        LET s1 == send_log([rows |-> rows, bus |-> log_events], d, "Configuring domain...", 1 \notin f)
            \* find_by_domain(..).ok().flatten().is_none(): an Err counts as "no row"
            existing == find_by_domain(domains, Subdomain(app))
            missing == 2 \in f \/ existing = None
            created == missing /\ 3 \notin f /\ existing = None
            s2 == IF created
                  THEN send_log(s1, d, "Subdomain created", 4 \notin f) ELSE s1
            proxied == created /\ CaddyConfigured /\ AppPort(app) # NULL
            s3 == IF proxied
                  THEN send_log(s2, d, IF caddy_ok THEN "Caddy configured"
                                       ELSE "Warning: Caddy configuration failed", TRUE)
                  ELSE s2
        IN /\ (3 \in f => missing)
           /\ (4 \in f => created)
           /\ (~caddy_ok => proxied)
           /\ dbFaults' = dbFaults + Cardinality(f)
           /\ rows' = s3.rows
           /\ log_events' = s3.bus
           /\ domains' = IF created
                         THEN domain_create(domains, app, Subdomain(app), TRUE)
                         ELSE domains
           /\ routes' = IF proxied /\ caddy_ok THEN routes \cup {app} ELSE routes
           /\ task' = [task EXCEPT ![d].pc = "mark_running",
                                   ![d].add_route = IF ~proxied THEN @
                                                    ELSE IF caddy_ok THEN "Ok" ELSE "Err"]
    /\ UNCHANGED <<containers, status_events>>
    /\ PipelineFrame

\* step 6: status -> running, the last log line, the DeploymentStatus event
MarkRunning(d) ==
    /\ At(d, "mark_running")
    /\ \E f \in FaultSets(2) :
        IF 1 \in f
        THEN /\ f = {1}
             /\ dbFaults' = dbFaults + 1
             /\ task' = [task EXCEPT ![d] = Exit(@, "database error")]
             /\ UNCHANGED <<rows, log_events, status_events>>
        ELSE LET st == send_log([rows |-> update_status(rows, d, "running"), bus |-> log_events],
                                d, "Deployment completed successfully!", 2 \notin f)
             IN /\ dbFaults' = dbFaults + Cardinality(f)
                /\ rows' = st.rows
                /\ log_events' = st.bus
                /\ status_events' = [status_events EXCEPT ![d] = Append(@, "running")]
                /\ task' = [task EXCEPT ![d] = Exit(@, "Ok")]
    /\ UNCHANGED <<containers, domains, routes>>
    /\ PipelineFrame

\* DeploymentService::cancel_deployment up to the return of cancel(); a database
\* error returns Err at once
CancelDeployment(id) ==
    /\ cancel_call = None
    /\ cancels < MaxCancels
    /\ cancels' = cancels + 1
    /\ \E f \in FaultSets(1) :
        /\ dbFaults' = dbFaults + Cardinality(f)
        /\ IF 1 \in f
           THEN UNCHANGED <<rows, cancel_call, cancelled_early>>
           ELSE LET r == cancel(rows, id)
                IN /\ rows' = r.rows
                   /\ cancel_call' = Some([id |-> id, cancelled |-> r.affected])
                   /\ cancelled_early' =
                        IF r.affected /\ rows[id].status \in {"queued", "cloning"}
                        THEN cancelled_early \cup {id} ELSE cancelled_early
    /\ UNCHANGED <<task, containers, status_events, log_events, domains, routes>>
    /\ OtherSubsystems

\* cancel_deployment from `if cancelled` to its return: find_by_id, the event
CancelReturn ==
    /\ cancel_call # None
    /\ \E f \in FaultSets(1) :
        /\ (1 \in f => The(cancel_call).cancelled)
        /\ dbFaults' = dbFaults + Cardinality(f)
        /\ status_events' =
            IF The(cancel_call).cancelled /\ 1 \notin f
            THEN [status_events EXCEPT ![The(cancel_call).id] = Append(@, "cancelled")]
            ELSE status_events
    /\ cancel_call' = None
    /\ UNCHANGED <<rows, task, containers, log_events, domains, routes,
                   cancelled_early, cancels>>
    /\ OtherSubsystems

Next ==
    \/ Trigger
    \/ \E d \in DeploymentIds :
        \/ StartPipeline(d)
        \/ Clone(d)
        \/ MarkBuilding(d)
        \/ Build(d)
        \/ MarkDeploying(d)
        \/ Create(d)
        \/ Start(d)
        \/ SwapLookup(d)
        \/ StopOld(d)
        \/ RemoveOld(d)
        \/ MarkOld(d)
        \/ ConfigureDomain(d)
        \/ MarkRunning(d)
        \/ CancelDeployment(d)
    \/ CancelReturn



Spec == Init /\ [][Next]_vars

\* ====================================================== health controller
HealthCheckStatus == {"healthy", "unhealthy", "unknown"}

\* HealthCheck.unhealthy_threshold of the application's health_checks row
unhealthy_threshold(app) == The(health_check_get(health_checks, app)).unhealthy_threshold

\* rows of health_check_results
TotalResults == Len(health_check_results["app1"]) + Len(health_check_results["app2"])

\* get_latest_status: ORDER BY checked_at DESC LIMIT 1
get_latest_status(results, app) ==
    IF results[app] = <<>> THEN None ELSE Some(results[app][Len(results[app])])

\* record_result: the INSERT
record_result(results, app, status) == [results EXCEPT ![app] = Append(@, status)]

\* get_recent_results with ORDER BY checked_at ASC: the oldest rows
get_recent_results_Oldest(results, app, limit) ==
    LET n == Len(results[app])
        k == IF limit < n THEN limit ELSE n
    IN [i \in 1..k |-> results[app][i]]

\* get_recent_results: ORDER BY checked_at DESC LIMIT limit (the newest first)
get_recent_results(results, app, limit) ==
    LET n == Len(results[app])
        k == IF limit < n THEN limit ELSE n
    IN [i \in 1..k |-> results[app][n - i + 1]]

\* the event test `old_status != new_status` turned into `new_status != Unknown`
StatusChanged_NotUnknown(old_status, new_status) == new_status # "unknown"

\* `if old_status != new_status`
StatusChanged(old_status, new_status) == old_status # new_status

\* recent_results.iter().take_while(|r| r.status == Unhealthy).count()
consecutive_unhealthy(recent) ==
    Cardinality({k \in 1..Len(recent) : \A i \in 1..k : recent[i] = "unhealthy"})

\* the threshold test with `>=` turned into `>`
ThresholdReached_Strict(count, threshold) == count > threshold

\* `if consecutive_unhealthy >= health_check.unhealthy_threshold as usize`
ThresholdReached(count, threshold) == count >= threshold

\* one iteration of check_application_health's loop, for the health check of app:
\* the probe's classification new_status, the result row, the AppHealth event,
\* the auto-restart. recent_ok = FALSE: get_recent_results returns Err and the
\* tick ends with `?`; restart_ok: the outcome of restart_container
CheckApp(app) ==
    /\ running_container[app] # None
    /\ TotalResults < MaxResults
    /\ \E new_status \in HealthCheckStatus, recent_ok \in BOOLEAN, restart_ok \in BOOLEAN :
        LET old_status == IF get_latest_status(health_check_results, app) = None
                          THEN "unknown"
                          ELSE The(get_latest_status(health_check_results, app))
            results == record_result(health_check_results, app, new_status)
            events1 == IF StatusChanged(old_status, new_status)
                       THEN Append(app_health_events[app], new_status)
                       ELSE app_health_events[app]
            recent == get_recent_results(results, app, unhealthy_threshold(app))
            restart == /\ new_status = "unhealthy"
                       /\ recent_ok
                       /\ ThresholdReached(consecutive_unhealthy(recent),
                                           unhealthy_threshold(app))
        IN /\ (~recent_ok => new_status = "unhealthy" /\ health_errors < MaxDbFaults)
           /\ (~restart_ok => restart)
           /\ health_check_results' = results
           /\ result_container_ids' =
                [result_container_ids EXCEPT ![app] = Append(@, The(running_container[app]))]
           /\ health_errors' = IF recent_ok THEN health_errors ELSE health_errors + 1
           /\ restarts' =
                IF restart
                THEN [restarts EXCEPT ![app] =
                        Append(@, [container_id |-> The(running_container[app]),
                                   ok |-> restart_ok, at |-> Len(results[app])])]
                ELSE restarts
           /\ app_health_events' =
                [app_health_events EXCEPT ![app] =
                    IF restart /\ restart_ok THEN Append(events1, "unknown") ELSE events1]
    /\ UNCHANGED <<health_checks, running_container, pvars, svars, wvars, xvars>>

\* a deployment of app reaches running: its container becomes the one the
\* controller probes (containers of one application are numbered in order)
SwapContainer(app) ==
    /\ LET next == IF running_container[app] = None THEN 1
                   ELSE The(running_container[app]) + 1
       IN /\ next <= MaxContainers
          /\ running_container' = [running_container EXCEPT ![app] = Some(next)]
    /\ UNCHANGED <<health_checks, health_check_results, result_container_ids,
                   app_health_events, restarts, health_errors, pvars, svars, wvars, xvars>>

HealthNext == \E app \in Apps : CheckApp(app) \/ SwapContainer(app)

\* the health checks as configure_health_check left them: any threshold (the
\* route does not validate it), the same for every application
HealthSpecInit ==
    /\ PipelineInit
    /\ HealthInit
    /\ ServerInit
    /\ WebhookInit
    /\ docker = TRUE
    /\ XInit
    /\ verification = NoVerification
    /\ \E t \in 0..MaxThreshold : health_checks = ConfiguredFor(t)

HealthSpec == HealthSpecInit /\ [][HealthNext]_vars

\* ========================================================= server monitor
\* ServerRepository::update_status: status and last_seen_at of one row
server_update_status(table, id, status, last_seen_at) ==
    [table EXCEPT ![id].status = status, ![id].last_seen_at = last_seen_at]

\* `let new_status = if server.is_local {Online} else {match test_ssh_connection ..}`
Classify(server, reachable) ==
    IF server.is_local THEN "online"
    ELSE IF reachable THEN "online" ELSE "offline"

\* check_servers: `let servers = repo.list().await?` (ORDER BY created_at DESC)
TickList ==
    /\ monitor.pc = "idle"
    /\ ticks < MaxTicks
    /\ ticks' = ticks + 1
    /\ monitor' = [monitor EXCEPT !.pc = "loop", !.snapshot = servers,
                                  !.queue = <<"remote", "local">>, !.result = "Ok"]
    /\ UNCHANGED <<servers, server_events, now, validations, pvars, hvars, wvars, xvars>>

\* check_servers: one iteration of `for server in servers`: the probe, the
\* comparison with the listed status, update_status (update_ok = FALSE: it
\* returns Err and the tick ends with `?`), the ServerHealth event
CheckServer ==
    /\ monitor.pc = "loop"
    /\ LET id == Head(monitor.queue)
           server == monitor.snapshot[id]
           old_status == server.status
       IN \E reachable \in BOOLEAN, update_ok \in BOOLEAN :
           LET new_status == Classify(server, reachable)
               changed == old_status # new_status
               aborted == changed /\ ~update_ok
               rest == IF aborted THEN <<>> ELSE Tail(monitor.queue)
           IN /\ (~update_ok => changed)
              /\ IF changed /\ update_ok
                 THEN /\ servers' = server_update_status(servers, id, new_status, now + 1)
                      /\ now' = now + 1
                      /\ server_events' = [server_events EXCEPT ![id] = Append(@, new_status)]
                 ELSE UNCHANGED <<servers, now, server_events>>
              /\ monitor' = [monitor EXCEPT
                                !.pc = IF rest = <<>> THEN "idle" ELSE "loop",
                                !.queue = rest, !.checked = id,
                                !.reachable = reachable, !.new_status = new_status,
                                !.result = IF aborted THEN "Err" ELSE "Ok"]
    /\ UNCHANGED <<ticks, validations, pvars, hvars, wvars, xvars>>

\* routes/servers.rs validate_server: probe, then update_status (no event)
ValidateServer(id) ==
    /\ validations < MaxValidations
    /\ validations' = validations + 1
    /\ \E reachable \in BOOLEAN :
        servers' = server_update_status(servers, id,
                                        IF reachable THEN "online" ELSE "offline", now + 1)
    /\ now' = now + 1
    /\ UNCHANGED <<server_events, monitor, ticks, pvars, hvars, wvars, xvars>>

ServerNext == TickList \/ CheckServer \/ \E id \in ServerIds : ValidateServer(id)

ServerSpec == Init /\ [][ServerNext]_vars

\* ========================================================= webhook ingress
\* the raw request bodies: a push event with the given ref, or bytes that do
\* not parse
Bodies == {"push refs/heads/main", "push refs/heads/dev", "push refs/tags/main", "not json"}

\* HMAC-SHA256 (crates hmac, sha2), taken as an ideal MAC: the tag is determined
\* by the key and the message and differs when either differs
HmacSha256(key, message) == [key |-> key, message |-> message]

\* hex::encode: the lowercase hexadecimal digits of the bytes
hex_encode(bytes) == [bytes |-> bytes, uppercase |-> FALSE]

\* a header value is a text `prefix ++ digits`
\* signature.strip_prefix(prefix)
strip_prefix(signature, prefix) ==
    IF signature.prefix = prefix THEN Some(signature.digits) ELSE None

\* verify_github_signature with strip_prefix(..).unwrap_or(signature): any prefix passes
verify_github_signature_AnyPrefix(secret, payload, signature) ==
    IF hex_encode(HmacSha256(secret, payload)) # signature.digits THEN "Err" ELSE "Ok"

verify_github_signature(secret, payload, signature) ==
    LET expected_sig == strip_prefix(signature, "sha256=")
        computed_sig == hex_encode(HmacSha256(secret, payload))
    IN IF expected_sig = None THEN "Err"
       ELSE IF computed_sig # The(expected_sig) THEN "Err" ELSE "Ok"

verify_gitlab_signature(secret, token) == IF secret # token THEN "Err" ELSE "Ok"

\* the x-hub-signature-256 values a sender presents
SignatureHeaders ==
    [prefix : {"sha256=", "sha1=", ""},
     digits : [bytes : {HmacSha256(k, b) : k \in Secrets, b \in Bodies},
               uppercase : BOOLEAN]]

\* the x-gitlab-token values a sender presents
Tokens == Secrets \cup {"other"}

\* the arguments of one verification
VerificationInputs ==
    [provider : {"github"}, secret : Secrets, payload : Bodies,
     credential : SignatureHeaders, result : {"pending"}, calls : {0}]
    \cup
    [provider : {"gitlab"}, secret : Secrets, payload : Bodies,
     credential : Tokens, result : {"pending"}, calls : {0}]

\* the verification of the request's credential, as the handlers call it
Verify(provider, secret, payload, credential) ==
    IF provider = "github" THEN verify_github_signature(secret, payload, credential)
    ELSE verify_gitlab_signature(secret, credential)

\* one delivery of the same request: the credential is verified (again)
VerifyCall ==
    /\ verification # None
    /\ LET v == The(verification)
       IN /\ v.calls < MaxVerifications
          /\ verification' =
                Some([v EXCEPT !.result = Verify(v.provider, v.secret, v.payload, v.credential),
                               !.calls = @ + 1])
    /\ UNCHANGED <<webhooks, docker, webhook_deliveries, webhook_request, pushes,
                   pvars, hvars, svars, xvars>>

VerifySpecInit ==
    /\ PipelineInit
    /\ HealthInit
    /\ health_checks = ConfiguredFor(MaxThreshold)
    /\ ServerInit
    /\ WebhookInit
    /\ docker = TRUE
    /\ XInit
    /\ \E v \in VerificationInputs : verification = Some(v)

VerifySpec == VerifySpecInit /\ [][VerifyCall]_vars

\* Application.git_branch of each application
GitBranch(app) == "main"

\* Application.auto_deploy of each application: app1 was created with
\* auto_deploy false, app2 with true
AutoDeploy(app) == app # "app1"

\* serde_json::from_slice::<..PushEvent>(payload): the event's ref, or an error
git_ref(payload) ==
    CASE payload = "push refs/heads/main" -> Some("refs/heads/main")
      [] payload = "push refs/heads/dev" -> Some("refs/heads/dev")
      [] payload = "push refs/tags/main" -> Some("refs/tags/main")
      [] OTHER -> None

\* git_ref.strip_prefix("refs/heads/").unwrap_or(&git_ref)
BranchOf(ref) ==
    CASE ref = "refs/heads/main" -> "main"
      [] ref = "refs/heads/dev" -> "dev"
      [] OTHER -> ref

\* parse_github_push / parse_gitlab_push: WebhookPayload.branch, or an error
parse_push(payload) ==
    IF git_ref(payload) = None THEN None ELSE Some(BranchOf(The(git_ref(payload))))

\* `let should_deploy = application.branch == payload.branch`
should_deploy(app, branch) == GitBranch(app) = branch

\* the credentials a sender presents in the header of its provider (None: no header)
PresentedCredentials(provider) ==
    IF provider = "github"
    THEN {Some(h) : h \in {g \in SignatureHeaders :
                              ~g.digits.uppercase /\ g.prefix # ""}} \cup {None}
    ELSE {Some(t) : t \in Tokens} \cup {None}

\* WebhookRepository::create_delivery: the INSERT
create_delivery(deliveries, app, provider, branch, status, deployment_id) ==
    Append(deliveries,
           [application_id |-> app, provider |-> provider, branch |-> branch,
            status |-> status, response_code |-> 200, deployment_id |-> deployment_id])

\* EarlyResponse without the 401 of a failed verification
EarlyResponse_NoVerify(app_id, verified, credential, payload) ==
    IF app_id \notin DOMAIN webhooks THEN 404
    ELSE IF ~webhooks[app_id].enabled THEN 403
    ELSE IF credential = None THEN 400
    ELSE IF parse_push(payload) = None THEN 400
    ELSE 0

\* what handle_*_webhook answers before it looks at the branch: 0 when it goes on
EarlyResponse(app_id, verified, credential, payload) ==
    IF app_id \notin DOMAIN webhooks THEN 404
    ELSE IF ~webhooks[app_id].enabled THEN 403
    ELSE IF credential = None THEN 400
    ELSE IF ~verified THEN 401
    ELSE IF parse_push(payload) = None THEN 400
    ELSE 0

\* handle_github_webhook / handle_gitlab_webhook, the whole handler
HandleWebhook(provider, app_id, payload, credential) ==
    /\ pushes < MaxPushes
    /\ pushes' = pushes + 1
    /\ LET verified == /\ app_id \in DOMAIN webhooks
                       /\ credential # None
                       /\ Verify(provider, webhooks[app_id].secret, payload,
                                 The(credential)) = "Ok"
           early == EarlyResponse(app_id, verified, credential, payload)
           request == [provider |-> provider, app_id |-> app_id, payload |-> payload,
                       presented |-> credential # None, verified |-> verified,
                       code |-> early, delivery |-> "none"]
       IN IF early # 0
          THEN /\ webhook_request' = Some(request)
               /\ UNCHANGED <<rows, task, dbFaults, webhook_deliveries>>
          ELSE LET branch == The(parse_push(payload)) IN
               IF should_deploy(app_id, branch)
               THEN IF ~docker
                    THEN /\ webhook_request' = Some([request EXCEPT !.code = 500])
                         /\ UNCHANGED <<rows, task, dbFaults, webhook_deliveries>>
                    ELSE /\ Len(rows) < DeploymentLimit
                         /\ \E f \in FaultSets(2), git_url \in {NULL, "url"} :
                             LET created == 1 \notin f
                                 status == IF created THEN "success" ELSE "failed"
                                 deployment_id ==
                                     IF created THEN Some(Len(rows) + 1) ELSE None
                             IN /\ dbFaults' = dbFaults + Cardinality(f)
                                /\ Deployed(app_id, git_url, created)
                                /\ webhook_deliveries' =
                                     IF 2 \in f THEN webhook_deliveries
                                     ELSE create_delivery(webhook_deliveries, app_id, provider,
                                                          branch, status, deployment_id)
                                /\ webhook_request' =
                                     Some([request EXCEPT
                                            !.code = IF 2 \in f THEN 500 ELSE 200,
                                            !.delivery = IF 2 \in f THEN "failed" ELSE "recorded"])
               ELSE \E f \in FaultSets(1) :
                      /\ dbFaults' = dbFaults + Cardinality(f)
                      /\ UNCHANGED <<rows, task>>
                      /\ webhook_deliveries' =
                           IF 1 \in f THEN webhook_deliveries
                           ELSE create_delivery(webhook_deliveries, app_id, provider,
                                                branch, "skipped", None)
                      /\ webhook_request' =
                           Some([request EXCEPT
                                  !.code = IF 1 \in f THEN 500 ELSE 200,
                                  !.delivery = IF 1 \in f THEN "failed" ELSE "recorded"])
    /\ UNCHANGED <<containers, status_events, log_events, domains, routes,
                   cancel_call, cancelled_early, cancels>>
    /\ UNCHANGED <<webhooks, docker, verification, hvars, svars, xvars>>

\* the requests the two endpoints receive: ?app_id names an application with a
\* webhook or one without
WebhookNext ==
    \E provider \in {"github", "gitlab"}, app_id \in Apps \cup {"app3"}, payload \in Bodies :
        \E credential \in PresentedCredentials(provider) :
            HandleWebhook(provider, app_id, payload, credential)

\* the server started with or without a container engine
WebhookSpecInit ==
    /\ PipelineInit
    /\ HealthInit
    /\ health_checks = ConfiguredFor(MaxThreshold)
    /\ ServerInit
    /\ WebhookInit
    /\ docker \in BOOLEAN
    /\ XInit
    /\ verification = NoVerification

WebhookSpec == WebhookSpecInit /\ [][WebhookNext]_vars

\* ================================================================ domains
\* the names users add; the subdomains of the applications are names too
DomainNames == {"a.example", "b.example"} \cup {Subdomain(a) : a \in Apps}

\* the domains of an application that are marked primary
Primaries(table, app) ==
    {i \in LiveDomains(table) : table[i].application_id = app /\ table[i].is_primary}

\* what domain management leaves alone
DomainFrame ==
    /\ UNCHANGED <<rows, task, containers, status_events, log_events, routes,
                   cancel_call, cancelled_early, cancels, dbFaults>>
    /\ UNCHANGED <<hvars, svars, wvars, cvars, bvars, kvars, gvars, evars, tvars>>

\* routes/domains.rs add_domain: 409 when the name exists, else create with
\* the request's is_primary
add_domain(app, name, is_primary) ==
    /\ Len(domains) < MaxDomains
    /\ find_by_domain(domains, name) = None
    /\ domains' = domain_create(domains, app, name, is_primary)
    /\ UNCHANGED primary_calls
    /\ DomainFrame

\* routes/domains.rs remove_domain: 404 / 403, else delete_by_domain
remove_domain(app, name) ==
    /\ \E i \in find_by_domain(domains, name) :
          domains[i].application_id = app
    /\ domains' = delete_by_domain(domains, name)
    /\ UNCHANGED primary_calls
    /\ DomainFrame

\* execute_deployment step 5.5 for an application being deployed: its effect on
\* the table
RegisterSubdomain(app) ==
    /\ Len(domains) < MaxDomains
    /\ find_by_domain(domains, Subdomain(app)) = None
    /\ domains' = domain_create(domains, app, Subdomain(app), TRUE)
    /\ UNCHANGED primary_calls
    /\ DomainFrame

\* a request that has been answered: its locals are gone
Returned(result) == [pc |-> result, id |-> 0, application_id |-> NULL]

\* set_primary_domain up to its call of set_primary: find_by_domain, the
\* ownership check (404 / 403 end the request)
SetPrimaryRequest(c, app, name) ==
    /\ primary_calls[c].pc = "idle"
    /\ \A b \in 1..(c - 1) : primary_calls[b].pc # "idle"
    /\ \E i \in find_by_domain(domains, name) :
          /\ domains[i].application_id = app
          /\ primary_calls' = [primary_calls EXCEPT ![c] = [@ EXCEPT !.pc = "find", !.id = i]]
    /\ UNCHANGED domains
    /\ DomainFrame

\* set_primary: find_by_id(id), "Domain not found" when the row is gone
SetPrimaryFind(c) ==
    /\ primary_calls[c].pc = "find"
    /\ LET id == primary_calls[c].id IN
       primary_calls' =
         [primary_calls EXCEPT ![c] =
            IF find_by_id(domains, id) = None
            THEN Returned("failed")
            ELSE [@ EXCEPT !.pc = "unset",
                           !.application_id = domains[id].application_id]]
    /\ UNCHANGED domains
    /\ DomainFrame

\* set_primary: the first UPDATE
SetPrimaryUnset(c) ==
    /\ primary_calls[c].pc = "unset"
    /\ domains' = unset_primary(domains, primary_calls[c].application_id)
    /\ primary_calls' = [primary_calls EXCEPT ![c].pc = "set"]
    /\ DomainFrame

\* set_primary: the second UPDATE, then Ok
SetPrimarySet(c) ==
    /\ primary_calls[c].pc = "set"
    /\ domains' = mark_primary(domains, primary_calls[c].id)
    /\ primary_calls' = [primary_calls EXCEPT ![c] = Returned("done")]
    /\ DomainFrame

DomainNext ==
    \/ \E app \in Apps, name \in DomainNames, is_primary \in BOOLEAN :
          add_domain(app, name, is_primary)
    \/ \E app \in Apps, name \in DomainNames : remove_domain(app, name)
    \/ \E app \in Apps : RegisterSubdomain(app)
    \/ \E c \in 1..MaxPrimaryCalls :
          \/ \E app \in Apps, name \in DomainNames : SetPrimaryRequest(c, app, name)
          \/ SetPrimaryFind(c)
          \/ SetPrimaryUnset(c)
          \/ SetPrimarySet(c)

DomainSpec == Init /\ [][DomainNext]_vars

\* ============================================== one-per-application rows
\* ConfigureHealthCheckRequest: the integers requests carry (none is validated)
HealthCheckRequests ==
    {DefaultHealthCheck,
     [DefaultHealthCheck EXCEPT !.interval_seconds = 0],
     [DefaultHealthCheck EXCEPT !.timeout_seconds = -1],
     [DefaultHealthCheck EXCEPT !.healthy_threshold = 0],
     [DefaultHealthCheck EXCEPT !.unhealthy_threshold = 0],
     [interval_seconds |-> 1, timeout_seconds |-> 1,
      healthy_threshold |-> 1, unhealthy_threshold |-> 1]}

\* upsert, the UPDATE .. WHERE application_id = ?
health_check_update(table, app, req) ==
    [i \in DOMAIN table |->
        IF table[i].application_id = app THEN HealthCheckRow(app, req) ELSE table[i]]

\* upsert, the INSERT
health_check_insert(table, app, req) == Append(table, HealthCheckRow(app, req))

\* what configuration requests leave alone
ConfigFrame ==
    /\ UNCHANGED <<pvars, svars, wvars, dvars, bvars, kvars, gvars, evars, tvars>>
    /\ UNCHANGED <<health_check_results, result_container_ids, app_health_events, restarts,
                   running_container, health_errors>>

\* an answered request: its locals are gone
UpsertReturned ==
    [pc |-> "done", application_id |-> NULL, req |-> DefaultHealthCheck, existing |-> FALSE]

\* configure_health_check up to the branch of upsert: the application exists,
\* `let existing = self.get(application_id).await?`
UpsertGet(c, app, req) ==
    /\ upsert_calls[c].pc = "idle"
    /\ \A b \in 1..(c - 1) : upsert_calls[b].pc # "idle"
    /\ upsert_calls' = [upsert_calls EXCEPT ![c] =
          [pc |-> "write", application_id |-> app, req |-> req,
           existing |-> health_check_get(health_checks, app) # None]]
    /\ UNCHANGED <<health_checks, deploy_keys, key_calls>>
    /\ ConfigFrame

\* upsert: the UPDATE when a row was found, the INSERT otherwise, and the answer
UpsertWrite(c) ==
    /\ upsert_calls[c].pc = "write"
    /\ LET call == upsert_calls[c] IN
       health_checks' =
          IF call.existing
          THEN health_check_update(health_checks, call.application_id, call.req)
          ELSE health_check_insert(health_checks, call.application_id, call.req)
    /\ upsert_calls' = [upsert_calls EXCEPT ![c] = UpsertReturned]
    /\ UNCHANGED <<deploy_keys, key_calls>>
    /\ ConfigFrame

\* DeployKeyRepository::delete: DELETE .. WHERE application_id = ?
deploy_key_delete(table, app) ==
    SelectSeq(table, LAMBDA k : k.application_id # app)

\* DeployKeyRepository::create: the INSERT of the generated pair
deploy_key_create(table, app, public_key) ==
    Append(table, [application_id |-> app, public_key |-> public_key])

\* generate_deploy_key: `let _ = key_repo.delete(&app_id).await`
KeyDelete(c, app) ==
    /\ key_calls[c].pc = "idle"
    /\ \A b \in 1..(c - 1) : key_calls[b].pc # "idle"
    /\ deploy_keys' = deploy_key_delete(deploy_keys, app)
    /\ key_calls' = [key_calls EXCEPT ![c] = [pc |-> "create", application_id |-> app]]
    /\ UNCHANGED <<health_checks, upsert_calls>>
    /\ ConfigFrame

\* generate_deploy_key: the key pair of this request, sealed, then create
KeyCreate(c) ==
    /\ key_calls[c].pc = "create"
    /\ deploy_keys' = deploy_key_create(deploy_keys, key_calls[c].application_id, c)
    /\ key_calls' = [key_calls EXCEPT ![c] = [pc |-> "done", application_id |-> NULL]]
    /\ UNCHANGED <<health_checks, upsert_calls>>
    /\ ConfigFrame

ConfigNext ==
    \/ \E c \in 1..MaxUpserts :
          \/ \E app \in Apps, req \in HealthCheckRequests : UpsertGet(c, app, req)
          \/ UpsertWrite(c)
    \/ \E c \in 1..MaxKeyCalls :
          \/ \E app \in Apps : KeyDelete(c, app)
          \/ KeyCreate(c)

\* no application has a health check yet
ConfigSpecInit ==
    /\ PipelineInit
    /\ HealthInit
    /\ health_checks = <<>>
    /\ ServerInit
    /\ WebhookInit
    /\ docker = TRUE
    /\ XInit
    /\ verification = NoVerification

ConfigSpec == ConfigSpecInit /\ [][ConfigNext]_vars

\* ================================================================ event bus
\* what the bus leaves alone
BusFrame == UNCHANGED <<pvars, hvars, svars, wvars, dvars, cvars, kvars, gvars, evars, tvars>>

\* the oldest event the channel still holds
OldestRetained == IF published > BusCapacity THEN published - BusCapacity + 1 ELSE 1

\* broadcast::Receiver::recv: Err(Lagged) when the cursor fell behind the buffer
Lagged(sub) == sub.next < OldestRetained

\* ws_broadcast.send(event): never waits, overwrites the oldest slot when full
Publish ==
    /\ published < MaxEvents
    /\ published' = published + 1
    /\ UNCHANGED subscribers
    /\ BusFrame

\* handle_socket: `state.ws_broadcast.subscribe()`, events sent from now on
Subscribe(s) ==
    /\ subscribers[s].state = "absent"
    /\ subscribers' = [subscribers EXCEPT ![s] =
          [@ EXCEPT !.state = "connected", !.since = published, !.next = published + 1]]
    /\ UNCHANGED published
    /\ BusFrame

\* a connection that has ended: its receiver is dropped
Closed(sub, cause) == [sub EXCEPT !.state = "closed", !.cause = cause]

\* send_task, one turn of `while let Ok(event) = broadcast_rx.recv().await`:
\* Err(Lagged) ends the loop, and so does a failed socket send
Forward(s, socket_ok) ==
    /\ subscribers[s].state = "connected"
    /\ subscribers[s].next <= published
    /\ LET sub == subscribers[s] IN
       subscribers' = [subscribers EXCEPT ![s] =
          IF Lagged(sub) THEN Closed(sub, "lagged")
          ELSE IF ~socket_ok THEN Closed(sub, "socket")
          ELSE [sub EXCEPT !.received = Append(@, sub.next), !.next = sub.next + 1]]
    /\ UNCHANGED published
    /\ BusFrame

\* recv_task ends (Close frame or read error): select! aborts send_task
ClientCloses(s) ==
    /\ subscribers[s].state = "connected"
    /\ subscribers' = [subscribers EXCEPT ![s] = Closed(@, "client")]
    /\ UNCHANGED published
    /\ BusFrame

BusNext ==
    \/ Publish
    \/ \E s \in Subscribers :
          \/ Subscribe(s)
          \/ \E socket_ok \in BOOLEAN : Forward(s, socket_ok)
          \/ ClientCloses(s)

BusSpec == Init /\ [][BusNext]_vars

\* ================================================================== crypto
NONCE_SIZE == 12

\* Result<String>
Ok(value) == [ok |-> TRUE, value |-> value]
Err(error) == [ok |-> FALSE, value |-> error]

\* the bytes OsRng gives for a nonce: two of the 2^96 values
Nonces ==
    {[i \in 1..NONCE_SIZE |-> [byte |-> 0]],
     [i \in 1..NONCE_SIZE |-> [byte |-> IF i = NONCE_SIZE THEN 1 ELSE 0]]}

\* 32-byte keys
Keys == {"key1", "key2"}

Plaintexts == {"", "secret", "KEY=value"}

\* Aes256Gcm::encrypt, an ideal AEAD: the ciphertext with its tag opens only
\* under the key and nonce it was made with
aead_encrypt(key, nonce, plaintext) ==
    <<[ct |-> [key |-> key, nonce |-> nonce, plaintext |-> plaintext, intact |-> TRUE]]>>

\* Aes256Gcm::decrypt: the plaintext, or an error when the tag does not verify
aead_decrypt(key, nonce, ciphertext) ==
    IF /\ Len(ciphertext) = 1
       /\ "ct" \in DOMAIN ciphertext[1]
       /\ ciphertext[1].ct.intact
       /\ ciphertext[1].ct.key = key
       /\ ciphertext[1].ct.nonce = nonce
    THEN Some(ciphertext[1].ct.plaintext)
    ELSE None

\* base64::encode / base64::decode: text that decodes to the bytes; other text
\* does not decode
base64_encode(data) == [text |-> "base64", data |-> data]
base64_decode(text) == IF text.text = "base64" THEN Some(text.data) ELSE None

\* encrypt with the nonce left out of the result
encrypt_NoNonce(plaintext, key, nonce_bytes) ==
    base64_encode(aead_encrypt(key, nonce_bytes, plaintext))

\* encrypt: base64(nonce || ciphertext with tag); nonce_bytes are OsRng's
encrypt(plaintext, key, nonce_bytes) ==
    base64_encode(nonce_bytes \o aead_encrypt(key, nonce_bytes, plaintext))

\* decrypt
decrypt(ciphertext_b64, key) ==
    LET decoded == base64_decode(ciphertext_b64) IN
    IF decoded = None THEN Err("Invalid base64")
    ELSE LET data == The(decoded) IN
         IF Len(data) < NONCE_SIZE THEN Err("Ciphertext too short")
         ELSE LET nonce == SubSeq(data, 1, NONCE_SIZE)
                  ciphertext == SubSeq(data, NONCE_SIZE + 1, Len(data))
                  plaintext == aead_decrypt(key, nonce, ciphertext)
              IN IF plaintext = None THEN Err("Decryption failed")
                 ELSE Ok(The(plaintext))

\* what can happen to a sealed value between encrypt and decrypt
Tamperings ==
    {"none", "first nonce byte", "last nonce byte", "ciphertext", "cut to nothing",
     "cut below the nonce", "cut to the nonce", "not base64"}

FlipByte(b) == IF "byte" \in DOMAIN b THEN [byte |-> 1 - b.byte]
               ELSE [ct |-> [b.ct EXCEPT !.intact = FALSE]]

AlterAt(data, i) == [j \in DOMAIN data |-> IF j = i THEN FlipByte(data[j]) ELSE data[j]]

Tamper(sealed, how) ==
    CASE how = "none" -> sealed
      [] how = "first nonce byte" -> base64_encode(AlterAt(sealed.data, 1))
      [] how = "last nonce byte" -> base64_encode(AlterAt(sealed.data, NONCE_SIZE))
      [] how = "ciphertext" -> base64_encode(AlterAt(sealed.data, Len(sealed.data)))
      [] how = "cut to nothing" -> base64_encode(<<>>)
      [] how = "cut below the nonce" -> base64_encode(SubSeq(sealed.data, 1, NONCE_SIZE - 1))
      [] how = "cut to the nonce" -> base64_encode(SubSeq(sealed.data, 1, NONCE_SIZE))
      [] OTHER -> [text |-> "???", data |-> sealed.data]

\* the secrets and keys of the runs
SealingInputs ==
    [plaintext : Plaintexts, key : Keys, sealed : {None}, tamper : {"none"},
     key2 : {"key1"}, opened : {None}]

\* crypto::encrypt(plaintext, key) with a fresh nonce
Encrypt ==
    /\ sealing # None
    /\ The(sealing).sealed = None
    /\ \E nonce_bytes \in Nonces :
          LET s == The(sealing) IN
          sealing' = Some([s EXCEPT !.sealed = Some(encrypt(s.plaintext, s.key, nonce_bytes))])
    /\ UNCHANGED <<pvars, hvars, svars, wvars, dvars, cvars, bvars, gvars, evars, tvars>>

\* crypto::decrypt(value, key2) of the stored value, as stored or tampered with
Decrypt(key2, how) ==
    /\ sealing # None
    /\ The(sealing).sealed # None
    /\ The(sealing).opened = None
    /\ sealing' = Some([The(sealing) EXCEPT
                          !.tamper = how,
                          !.key2 = key2,
                          !.opened = Some(decrypt(Tamper(The(The(sealing).sealed), how), key2))])
    /\ UNCHANGED <<pvars, hvars, svars, wvars, dvars, cvars, bvars, gvars, evars, tvars>>

CryptoNext ==
    \/ Encrypt
    \/ \E key2 \in Keys, how \in Tamperings : Decrypt(key2, how)

CryptoSpecInit ==
    /\ PipelineInit
    /\ HealthInit
    /\ health_checks = ConfiguredFor(MaxThreshold)
    /\ ServerInit
    /\ WebhookInit
    /\ docker = TRUE
    /\ verification = NoVerification
    /\ DomainInit
    /\ ConfigInit
    /\ BusInit
    /\ StatsInit
    /\ EnvInit
    /\ TwinInit
    /\ \E s \in SealingInputs : sealing = Some(s)

CryptoSpec == CryptoSpecInit /\ [][CryptoNext]_vars

\* ========================================================= stats retention
\* timestamps as text: <<date, separator, time of day>>, characters by their code
SPACE == 32
LETTER_T == 84

\* DateTime<Utc>::to_rfc3339: "YYYY-MM-DDTHH:MM:SS.f+00:00"
to_rfc3339(t) == <<t \div HoursPerDay, LETTER_T, t % HoursPerDay>>

\* SQLite datetime('now', '-N hours'): "YYYY-MM-DD HH:MM:SS"
sqlite_datetime(t, hours) ==
    <<(t - hours) \div HoursPerDay, SPACE, (t - hours) % HoursPerDay>>

\* SQLite's comparison of two TEXT values: byte by byte
TextLess(a, b) ==
    \E i \in 1..Len(a) :
        /\ a[i] < b[i]
        /\ \A j \in 1..(i - 1) : a[j] = b[j]

\* recorded_at.parse(): the time a row was recorded at
RecordedAt(row) == row.recorded_at[1] * HoursPerDay + row.recorded_at[3]

\* ContainerStatsRepository::record: the INSERT with recorded_at = now.to_rfc3339()
record(table, id, t) == table \cup {[id |-> id, recorded_at |-> to_rfc3339(t)]}

\* ContainerStatsRepository::cleanup_old_stats(hours):
\* DELETE .. WHERE recorded_at < datetime('now', '-{hours} hours')
cleanup_old_stats(table, t, hours) ==
    {row \in table : ~TextLess(row.recorded_at, sqlite_datetime(t, hours))}

\* what the aggregator leaves alone
StatsFrame ==
    UNCHANGED <<pvars, hvars, svars, wvars, dvars, cvars, bvars, kvars, evars, tvars>>

\* time passes: half a day
Tick ==
    /\ clock + 12 <= MaxClock
    /\ clock' = clock + 12
    /\ UNCHANGED <<container_stats, samples, gc_runs>>
    /\ StatsFrame

\* collect_container_stats: one sample of a running container is recorded
CollectStats ==
    /\ samples < MaxSamples
    /\ samples' = samples + 1
    /\ container_stats' = record(container_stats, samples + 1, clock)
    /\ UNCHANGED <<clock, gc_runs>>
    /\ StatsFrame

\* stats_aggregator cleanup_old_stats: keep the last 24 hours
CleanupOldStats ==
    /\ gc_runs < MaxGcRuns
    /\ gc_runs' = gc_runs + 1
    /\ container_stats' = cleanup_old_stats(container_stats, clock, 24)
    /\ UNCHANGED <<clock, samples>>
    /\ StatsFrame

StatsNext == Tick \/ CollectStats \/ CleanupOldStats

StatsSpec == Init /\ [][StatsNext]_vars

\* =================================================== environment variables
\* characters a key is made of: an ASCII letter, an ASCII digit, the underscore,
\* a letter outside ASCII, a space and a hyphen
KeyChars == {"A", "7", "_", "é", " ", "-"}

\* the key strings of requests: every string of at most MaxKeyLen characters
KeyStrings == UNION {[1..n -> KeyChars] : n \in 0..MaxKeyLen}

\* char::is_alphanumeric: Unicode Alphabetic or a Unicode number
is_alphanumeric(c) == c \in {"A", "7", "é"}

\* char::is_whitespace
is_whitespace(c) == c = " "

\* str::trim: the string without its leading and trailing whitespace
trim(value) ==
    LET kept == {i \in 1..Len(value) : ~is_whitespace(value[i])}
        first == CHOOSE i \in kept : \A j \in kept : i <= j
        last == CHOOSE i \in kept : \A j \in kept : j <= i
    IN  IF kept = {} THEN <<>> ELSE SubSeq(value, first, last)

\* str::len: the length in bytes of the UTF-8 encoding
RECURSIVE len(_)
len(value) ==
    IF value = <<>> THEN 0
    ELSE (IF Head(value) = "é" THEN 2 ELSE 1) + len(Tail(value))

\* validation::env_key
env_key(value) ==
    IF trim(value) = <<>> THEN "Err"
    ELSE IF len(value) > 256 THEN "Err"
    ELSE IF \A i \in 1..Len(value) : is_alphanumeric(value[i]) \/ value[i] = "_"
         THEN "Ok"
    ELSE "Err"

\* EnvVarRepository::create: the INSERT
env_create(table, app, key, value) ==
    Append(table, [application_id |-> app, key |-> key, value_encrypted |-> value])

\* EnvVarRepository::update: UPDATE .. SET value_encrypted WHERE application_id AND key
env_update(table, app, key, value) ==
    [i \in DOMAIN table |->
        IF table[i].application_id = app /\ table[i].key = key
        THEN [table[i] EXCEPT !.value_encrypted = value]
        ELSE table[i]]

\* the sealed values of requests
SealedValues == {"sealed1", "sealed2"}

\* what the environment-variable routes leave alone
EnvFrame ==
    UNCHANGED <<pvars, hvars, svars, wvars, dvars, cvars, bvars, kvars, gvars, tvars>>

\* a request counted
EnvCall ==
    /\ env_calls < MaxEnvCalls
    /\ env_calls' = env_calls + 1
    /\ EnvFrame

\* routes/applications.rs create_application: the application is created, then
\* every pair of env_vars is encrypted and inserted
CreateApplication(app, env_vars) ==
    /\ EnvCall
    /\ environment_variables' =
           IF env_vars = None THEN environment_variables
           ELSE env_create(environment_variables, app,
                           The(env_vars).key, The(env_vars).value)

\* routes/applications.rs add_env_var
AddEnvVar(app, key, value) ==
    /\ EnvCall
    /\ environment_variables' =
           IF env_key(key) = "Err" THEN environment_variables
           ELSE env_create(environment_variables, app, key, value)

\* routes/applications.rs update_env_var
UpdateEnvVar(app, key, value) ==
    /\ EnvCall
    /\ environment_variables' = env_update(environment_variables, app, key, value)

EnvNext ==
    \/ \E app \in Apps :
           \E env_vars \in {None} \cup
                   {Some([key |-> k, value |-> v]) : k \in KeyStrings, v \in SealedValues} :
               CreateApplication(app, env_vars)
    \/ \E app \in Apps, key \in KeyStrings, value \in SealedValues :
           AddEnvVar(app, key, value)
    \/ \E app \in Apps, key \in KeyStrings, value \in SealedValues :
           UpdateEnvVar(app, key, value)

EnvSpec == Init /\ [][EnvNext]_vars

\* ============================================ a deployment and its bus
\* execute_deployment as the list of its statements, for an application with a
\* git_url, a port and a running previous deployment. op: the call; on_err:
\* what its Err does ("return": `?`; "ignore": `let _ =`; "warn": a warning
\* line instead of the success line; "skip": the block is left, to statement
\* `to`; "none": `.ok().flatten()`, read as no row); sends: the statement ends
\* with a ws_broadcast.send; line, warning: the lines of a "warn" statement
Stmt(op, on_err, sends) ==
    [op |-> op, on_err |-> on_err, sends |-> sends, to |-> 0,
     line |-> NULL, warning |-> NULL]

\* send_log(line): append_log with its error dropped, then the DeploymentLog event
SendLog(line) == Stmt(<<"append_log", line>>, "ignore", TRUE)

Script ==
    << Stmt(<<"update_status", "cloning">>, "return", FALSE),
       SendLog("Cloning repository"),
       Stmt(<<"create_dir_all">>, "return", FALSE),
       Stmt(<<"clone_repo">>, "return", FALSE),
       Stmt(<<"get_latest_commit">>, "return", FALSE),
       SendLog("Commit"),
       Stmt(<<"update commit_sha">>, "return", FALSE),
       Stmt(<<"update_status", "building">>, "return", FALSE),
       SendLog("Building Docker image..."),
       Stmt(<<"build_image">>, "return", FALSE),
       SendLog("build output"),
       SendLog("Build completed successfully"),
       Stmt(<<"update_status", "deploying">>, "return", FALSE),
       SendLog("Creating container..."),
       Stmt(<<"create_container">>, "return", FALSE),
       Stmt(<<"set_container_id">>, "return", FALSE),
       SendLog("Container created"),
       Stmt(<<"start_container">>, "return", FALSE),
       SendLog("Container started"),
       SendLog("Waiting for health check..."),
       SendLog("Performing rolling update..."),
       [Stmt(<<"get_latest_running">>, "skip", FALSE) EXCEPT !.to = 27],
       SendLog("Stopping old container"),
       [Stmt(<<"stop_container">>, "warn", TRUE) EXCEPT
           !.line = "Old container stopped",
           !.warning = "Warning: Failed to stop old container"],
       [Stmt(<<"remove_container">>, "warn", TRUE) EXCEPT
           !.line = "Old container removed",
           !.warning = "Warning: Failed to remove old container"],
       Stmt(<<"update_status", "rolled_back">>, "ignore", FALSE),
       SendLog("Configuring domain..."),
       Stmt(<<"find_by_domain">>, "none", FALSE),
       [Stmt(<<"domain create">>, "skip", FALSE) EXCEPT !.to = 32],
       SendLog("Subdomain created"),
       [Stmt(<<"add_route">>, "warn", TRUE) EXCEPT
           !.line = "Caddy configured",
           !.warning = "Warning: Caddy configuration failed"],
       Stmt(<<"update_status", "running">>, "return", FALSE),
       SendLog("Deployment completed successfully!"),
       Stmt(<<"event", "running">>, "ignore", TRUE) >>

\* broadcast::Sender::send: Err when no receiver is subscribed (the value is
\* dropped), else Ok; it never waits: a receiver more than BusCapacity events
\* behind loses its oldest event
send(ch) ==
    IF ch.receiver # "connected"
    THEN [result |-> "Err", ch |-> [ch EXCEPT !.refused = TRUE]]
    ELSE [result |-> "Ok",
          ch |-> [ch EXCEPT !.lag = IF @ > BusCapacity THEN @ ELSE @ + 1,
                            !.overrun = @ \/ ch.lag >= BusCapacity]]

\* the result of the send propagated with `?`
Broadcast_Propagated(run, sent) ==
    IF sent.result = "Err" THEN [run EXCEPT !.result = "Err"] ELSE run

\* `let _ = ws_broadcast.send(..)`: the result is dropped
Broadcast(run, sent) == run

\* the statement's call reaches its ws_broadcast.send
ReachesSend(stmt, ok) == stmt.sends /\ (ok \/ stmt.on_err \notin {"return", "skip"})

\* one statement of execute_deployment: ok tells whether its call succeeded,
\* sent is what ws_broadcast.send returned. The call is a durable effect (the
\* event alone is none), a "warn" statement appends its line
Exec(run, stmt, ok, sent) ==
    LET called == IF stmt.op[1] = "event" THEN run.effects
                  ELSE Append(run.effects, [op |-> stmt.op, ok |-> ok])
        logged == IF stmt.on_err = "warn"
                  THEN Append(called, [op |-> <<"append_log",
                                               IF ok THEN stmt.line ELSE stmt.warning>>,
                                       ok |-> TRUE])
                  ELSE called
        next == IF ~ok /\ stmt.on_err = "skip" THEN stmt.to ELSE run.pc + 1
        after == [run EXCEPT !.effects = logged, !.pc = next,
                             !.result = IF next > Len(Script) THEN "Ok" ELSE @]
    IN  IF ~ok /\ stmt.on_err = "return"
        THEN [run EXCEPT !.effects = called, !.result = "Err"]
        ELSE IF stmt.sends THEN Broadcast(after, sent) ELSE after

\* what the executions and their buses leave alone
TwinFrame ==
    UNCHANGED <<pvars, hvars, svars, wvars, dvars, cvars, bvars, kvars, gvars, evars>>

\* both executions take their next statement, each on its own bus, the call
\* having the same outcome in both
TwinStep ==
    /\ \E r \in 1..2 : twin_runs[r].result = NULL
    /\ \E ok \in BOOLEAN :
        /\ (~ok => twin_faults < MaxStepFaults)
        /\ (~ok => \A r \in 1..2 : twin_runs[r].result = NULL
                                      => Script[twin_runs[r].pc].op[1] # "event")
        /\ twin_faults' = IF ok THEN twin_faults ELSE twin_faults + 1
        /\ twin_runs' = [r \in 1..2 |->
              IF twin_runs[r].result # NULL THEN twin_runs[r]
              ELSE Exec(twin_runs[r], Script[twin_runs[r].pc], ok, send(twin_channels[r]))]
        /\ twin_channels' = [r \in 1..2 |->
              IF twin_runs[r].result = NULL /\ ReachesSend(Script[twin_runs[r].pc], ok)
              THEN send(twin_channels[r]).ch ELSE twin_channels[r]]
    /\ TwinFrame

\* the first execution's bus never has a subscriber, the second one's has a
\* websocket that connects, reads and goes at any time
Observed == 2

\* handle_socket: ws_broadcast.subscribe()
Attach ==
    /\ twin_channels[Observed].receiver # "connected"
    /\ twin_channels' = [twin_channels EXCEPT ![Observed].receiver = "connected",
                                              ![Observed].lag = 0]
    /\ UNCHANGED <<twin_runs, twin_faults>>
    /\ TwinFrame

\* send_task: one recv(); Err(Lagged) ends the connection
Drain ==
    /\ twin_channels[Observed].receiver = "connected"
    /\ twin_channels[Observed].lag > 0
    /\ twin_channels' = [twin_channels EXCEPT ![Observed] =
          IF @.lag > BusCapacity THEN [@ EXCEPT !.receiver = "closed", !.lag = 0]
          ELSE [@ EXCEPT !.lag = @ - 1]]
    /\ UNCHANGED <<twin_runs, twin_faults>>
    /\ TwinFrame

\* the client closes its socket
Detach ==
    /\ twin_channels[Observed].receiver = "connected"
    /\ twin_channels' = [twin_channels EXCEPT ![Observed].receiver = "closed",
                                              ![Observed].lag = 0]
    /\ UNCHANGED <<twin_runs, twin_faults>>
    /\ TwinFrame

TwinNext == TwinStep \/ Attach \/ Drain \/ Detach

TwinSpec == Init /\ [][TwinNext]_vars

\* ================================================================ claims
Terminal == {"running", "failed", "cancelled", "rolled_back"}
NonTerminal == {"queued", "cloning", "building", "deploying"}

Exited(d) == d \in DOMAIN task /\ task[d].pc = "exited"
Contains(seq, x) == \E i \in 1..Len(seq) : seq[i] = x
Count(seq, x) == Cardinality({i \in 1..Len(seq) : seq[i] = x})

\* C1 (P1): in every reachable state, every deployment row has finished_at
\* non-null exactly when its status is running, failed, cancelled or rolled_back.
C1_FinishedIffTerminal ==
    \A d \in DOMAIN rows :
        (rows[d].finished_at # NULL) <=> (rows[d].status \in Terminal)

\* C2: a status changes only forward along queued -> cloning -> building ->
\* deploying -> running, or from a non-terminal status to failed or cancelled, or
\* from running to rolled_back; failed, cancelled and rolled_back never change.
Rank(status) ==
    CASE status = "queued" -> 0
      [] status = "cloning" -> 1
      [] status = "building" -> 2
      [] status = "deploying" -> 3
      [] status = "running" -> 4
      [] OTHER -> 5

AllowedTransition(a, b) ==
    \/ a \in NonTerminal /\ b \in NonTerminal \cup {"running"} /\ Rank(a) < Rank(b)
    \/ a \in NonTerminal /\ b \in {"failed", "cancelled"}
    \/ a = "running" /\ b = "rolled_back"

C2_StatusMonotone ==
    [][\A d \in DOMAIN rows :
          rows'[d].status # rows[d].status
              => AllowedTransition(rows[d].status, rows'[d].status)]_vars

\* C3: a deployment whose background task has ended is in a terminal status
\* (the task drives every deployment it was spawned for to a terminal status).
C3_TaskEndsTerminal ==
    \A d \in DOMAIN rows : Exited(d) => rows[d].status \in Terminal

\* C4: when the pipeline has ended with an error, the row is failed, the error
\* text is the last line of build_log, and exactly one DeploymentStatus event
\* (failed) was published for the deployment.
C4_ErrorIsRecorded ==
    \A d \in DOMAIN rows :
        (Exited(d) /\ task[d].result # "Ok")
            => /\ rows[d].status = "failed"
               /\ rows[d].build_log # <<>>
               /\ rows[d].build_log[Len(rows[d].build_log)] = task[d].result
               /\ Count(status_events[d], "failed") = 1

\* C5: a cancel(id) call whose query succeeds, on a row that is queued, cloning,
\* building or deploying, sets status = cancelled and finished_at, changes nothing
\* else and returns true; on a row in any other status, or on an unknown id, it
\* returns false and leaves the table unchanged.
CancelCalled(id) ==
    cancel_call = None /\ cancel_call' # None /\ The(cancel_call').id = id

C5_CancelContract ==
    [][\A id \in DeploymentIds :
          CancelCalled(id) =>
            IF id \in DOMAIN rows /\ rows[id].status \in NonTerminal
            THEN /\ The(cancel_call').cancelled
                 /\ rows'[id].status = "cancelled"
                 /\ rows'[id].finished_at # NULL
                 /\ rows' = [rows EXCEPT ![id].status = "cancelled",
                                         ![id].finished_at = rows'[id].finished_at]
            ELSE /\ ~The(cancel_call').cancelled
                 /\ rows' = rows]_vars

\* C5 witness: both cases have happened: a cancel has returned true from a
\* non-terminal status, and a later cancel of the same, now running, deployment
\* has returned false
C5_Witness ==
    \E id \in DOMAIN rows :
        /\ cancel_call = Some([id |-> id, cancelled |-> FALSE])
        /\ rows[id].status = "running"
        /\ Contains(status_events[id], "cancelled")

\* C6: a deployment whose cancel returned true while it was queued or cloning
\* never has an image build started nor a container created.
BuildStarted(d) ==
    \/ task[d].result = "build_image failed"
    \/ Contains(log_events[d], "Build completed successfully")

C6_EarlyCancelStopsPipeline ==
    \A d \in cancelled_early : ~BuildStarted(d) /\ containers[d] = "absent"

\* C7: among the DeploymentStatus events published for one deployment, none with
\* a non-terminal or running status follows one with status cancelled or failed.
C7_NoEventAfterCancelled ==
    \A d \in DeploymentIds :
        \A i, j \in 1..Len(status_events[d]) :
            (i < j /\ status_events[d][i] \in {"cancelled", "failed"})
                => status_events[d][j] \notin NonTerminal \cup {"running"}

\* C8: let D1 be the one running deployment of an application when D2 is
\* triggered, let no other deployment of the application be in flight while D2
\* runs, and let every step of D2 succeed. Once D2's pipeline has ended (and
\* before a later deployment of the application is triggered): D2 is running, D1
\* is rolled_back, both have finished_at, D1's container is removed, and exactly
\* one DeploymentStatus{D2, running} event was published.
SameApp(d, e) == rows[d].application_id = rows[e].application_id

Solo(d2) ==
    /\ task[d2].in_flight_at_trigger = {}
    /\ \A e \in DOMAIN rows : e > d2 => ~SameApp(d2, e)

CompletedCleanly(d) ==
    /\ Exited(d)
    /\ task[d].result = "Ok"
    /\ task[d].cleanup_failed = {}
    /\ dbFaults = 0

Alive(cid) == containers[cid] \in {"created", "running"}

C9_ConcurrentSwap ==
    \A d1 \in DOMAIN rows : \A d2 \in DOMAIN rows :
        (/\ d1 < d2 /\ SameApp(d1, d2)
         /\ CompletedCleanly(d1) /\ CompletedCleanly(d2)
         /\ d1 \in task[d2].in_flight_at_trigger
         /\ \A e \in DOMAIN rows : SameApp(e, d1) => e \in {d1, d2})
            => \E r \in {d1, d2} : \E o \in {d1, d2} \ {r} :
                   /\ rows[r].status = "running"
                   /\ rows[o].status = "rolled_back"
                   /\ Alive(r)
                   /\ ~Alive(o)

\* C10: when stopping or removing the old container has failed during D's swap
\* (and no database call fails): D is never failed and its pipeline ends Ok with
\* D marked running; each failure is a warning line of D's build_log; and once
\* the swap is over the old row is rolled_back.
SwapOver(d) == task[d].pc \in {"domain", "mark_running", "exited"}

C10_CleanupFailureIsWarning ==
    \A d \in DOMAIN rows :
        (task[d].cleanup_failed # {} /\ dbFaults = 0)
            => /\ rows[d].status # "failed"
               /\ Exited(d) => /\ task[d].result = "Ok"
                               /\ Contains(status_events[d], "running")
                               /\ rows[d].status \in {"running", "rolled_back"}
               /\ "stop" \in task[d].cleanup_failed
                    => Contains(rows[d].build_log, "Warning: Failed to stop old container")
               /\ "remove" \in task[d].cleanup_failed
                    => Contains(rows[d].build_log, "Warning: Failed to remove old container")
               /\ SwapOver(d) => rows[The(task[d].prev)].status = "rolled_back"

C10_Witness ==
    \E d \in DOMAIN rows :
        /\ task[d].cleanup_failed = {"stop", "remove"}
        /\ Exited(d)
        /\ rows[d].status = "running"
        /\ rows[The(task[d].prev)].status = "rolled_back"
        /\ Alive(The(task[d].prev_container_id))

\* C11: whenever a deployment's container has been created, every stored
\* environment variable of its application decrypts (otherwise the deployment
\* would have failed before creating it) and the container's env is exactly the
\* application's variables as key=value pairs.
DecryptedEnv(app) == {v.key : v \in {w \in EnvVars(app) : w.decrypts}}

C11_ContainerEnv ==
    \A d \in DOMAIN rows :
        containers[d] # "absent"
            => /\ \A v \in EnvVars(rows[d].application_id) : v.decrypts
               /\ task[d].env = DecryptedEnv(rows[d].application_id)

\* C12: for every deployment, the DeploymentLog lines published for it are, in
\* order, exactly the lines of its build_log (every emitted line is both
\* appended and published).
C12_LogEqualsEvents ==
    \A d \in DOMAIN rows : log_events[d] = rows[d].build_log

\* -------------------------------------------------- health controller claims
\* a tick has recorded a result for app in this step
Ticked(app) == health_check_results'[app] # health_check_results[app]

NewStatus(app) == health_check_results'[app][Len(health_check_results'[app])]

OldStatus(app) ==
    IF health_check_results[app] = <<>> THEN "unknown"
    ELSE health_check_results[app][Len(health_check_results[app])]

\* the AppHealth events the step has published for app
Published(app) ==
    SubSeq(app_health_events'[app], Len(app_health_events[app]) + 1,
           Len(app_health_events'[app]))

\* the unhealthy results at the end of a sequence of results
Streak(results) ==
    Cardinality({k \in 1..Len(results) :
                    \A i \in (Len(results) - k + 1)..Len(results) : results[i] = "unhealthy"})

\* C13 (P7): on a tick whose recorded status differs from the latest result
\* persisted before it (unknown when there is none), exactly one AppHealth event
\* carrying the new status is published for the application; when the status is
\* unchanged, none carrying that status is published.
C13_EventIffChanged ==
    [][\A app \in Apps :
          Ticked(app) =>
              Count(Published(app), NewStatus(app))
                  = IF NewStatus(app) # OldStatus(app) THEN 1 ELSE 0]_vars

C13_Witness ==
    \E app \in Apps :
        /\ Len(health_check_results[app]) = 3
        /\ health_check_results[app][1] = "healthy"
        /\ health_check_results[app][2] = "healthy"
        /\ health_check_results[app][3] = "unknown"
        /\ app_health_events[app] = <<"healthy", "unknown">>

\* C14 (P8): on the tick that completes unhealthy_threshold (>= 1) consecutive
\* unhealthy results, whose queries succeed, the controller issues exactly one
\* restart, of the container of the application's running deployment; it is the
\* only restart issued during the streak; and when the restart succeeded, one
\* AppHealth{app, unknown} event is published.
C14_RestartAtThreshold ==
    [][\A app \in Apps :
          (/\ Ticked(app)
           /\ health_errors' = health_errors
           /\ unhealthy_threshold(app) >= 1
           /\ Streak(health_check_results'[app]) = unhealthy_threshold(app))
              => LET n == Len(restarts'[app])
                 IN /\ n = Len(restarts[app]) + 1
                    /\ SubSeq(restarts'[app], 1, n - 1) = restarts[app]
                    /\ restarts'[app][n].container_id = The(running_container[app])
                    /\ {i \in 1..n : restarts'[app][i].at
                                        > Len(health_check_results'[app])
                                            - unhealthy_threshold(app)} = {n}
                    /\ restarts'[app][n].ok
                         => Count(Published(app), "unknown") = 1]_vars

C14_Witness ==
    \E app \in Apps :
        /\ unhealthy_threshold(app) = 2
        /\ health_check_results[app] = <<"healthy", "unhealthy", "unhealthy">>
        /\ Len(restarts[app]) = 1
        /\ restarts[app][1].ok
        /\ app_health_events[app] = <<"healthy", "unhealthy", "unknown">>

\* C15: a tick restarts a container only when the result it has just recorded
\* is unhealthy and the unhealthy_threshold most recent results of the
\* application exist and are all unhealthy.
C15_NoRestartBelowThreshold ==
    [][\A app \in Apps :
          restarts'[app] # restarts[app]
              => LET results == health_check_results'[app]
                     n == unhealthy_threshold(app)
                 IN /\ Ticked(app)
                    /\ NewStatus(app) = "unhealthy"
                    /\ Len(results) >= n
                    /\ \A i \in (Len(results) - n + 1)..Len(results) :
                          results[i] = "unhealthy"]_vars

\* C15 witness: with threshold 2, unhealthy, healthy, unhealthy caused no
\* restart; the restart came with the next unhealthy result
C15_Witness ==
    \E app \in Apps :
        /\ unhealthy_threshold(app) = 2
        /\ health_check_results[app] = <<"unhealthy", "healthy", "unhealthy", "unhealthy">>
        /\ Len(restarts[app]) = 1
        /\ restarts[app][1].at = 4

\* ---------------------------------------------------- server monitor claim
\* the monitor has finished the check of one server in this step
Checked == monitor.pc = "loop" /\ monitor' # monitor

\* C16: on each check of a server by a tick (whose update, if any, succeeds): a
\* local server is classified online, any other online iff the TCP connect
\* succeeded; if the classified status differs from the stored status, status
\* and last_seen_at are written and exactly one ServerHealth event is published
\* for the server; otherwise nothing is written or published for it.
C16_ServerTick ==
    [][(Checked /\ monitor'.result = "Ok") =>
          LET id == monitor'.checked
              classified == monitor'.new_status
          IN /\ servers[id].is_local => classified = "online"
             /\ ~servers[id].is_local => (classified = "online" <=> monitor'.reachable)
             /\ classified \in {"online", "offline"}
             /\ IF classified # servers[id].status
                THEN /\ servers'[id].status = classified
                     /\ servers'[id].last_seen_at # servers[id].last_seen_at
                     /\ server_events'[id] = Append(server_events[id], classified)
                ELSE /\ servers'[id] = servers[id]
                     /\ server_events'[id] = server_events[id]]_vars

\* --------------------------------------------------------- webhook claims
\* C20: verify_github_signature(secret, body, header) is Ok iff header is
\* "sha256=" followed by hex(HMAC-SHA256(secret, body)): with another secret or
\* another body the same header fails, and a replay of the same request is
\* accepted again; verify_gitlab_signature(secret, token) is Ok iff token = secret.
C20_VerifyIffMatches ==
    \A v \in verification :
        v.calls >= 1 =>
            IF v.provider = "github"
            THEN /\ (v.result = "Ok")
                      <=> v.credential = [prefix |-> "sha256=",
                                          digits |-> hex_encode(HmacSha256(v.secret, v.payload))]
                 /\ v.result = "Ok" =>
                      \A k \in Secrets, b \in Bodies :
                          (k # v.secret \/ b # v.payload)
                              => verify_github_signature(k, b, v.credential) = "Err"
            ELSE (v.result = "Ok") <=> (v.credential = v.secret)

\* C20 witness: a GitHub request with the right signature, accepted twice
C20_Witness ==
    \E v \in verification :
        /\ v.provider = "github"
        /\ v.calls = 2
        /\ v.result = "Ok"
        /\ v.payload = "push refs/heads/main"

\* a webhook request has been handled in this step
Handled == pushes' = pushes + 1

\* the request was for an enabled webhook, passed verification and parsed
ValidPush(r) ==
    /\ r.app_id \in DOMAIN webhooks
    /\ webhooks[r.app_id].enabled
    /\ r.verified
    /\ parse_push(r.payload) # None

LastDelivery(deliveries) == deliveries[Len(deliveries)]

\* C17: for a verified push to an enabled webhook (no database call failing),
\* with or without a container engine: a deployment row, in status queued,
\* is created iff the parsed branch equals the application's git_branch; on the
\* matching branch one delivery is recorded with status success and that
\* deployment's id; on any other branch one delivery with status skipped and no
\* deployment.
C17_DeployIffBranchMatches ==
    [][\A r \in webhook_request' :
          (Handled /\ ValidPush(r) /\ dbFaults' = dbFaults) =>
              LET matches == The(parse_push(r.payload)) = GitBranch(r.app_id)
                  d == LastDelivery(webhook_deliveries')
              IN /\ Len(webhook_deliveries') = Len(webhook_deliveries) + 1
                 /\ SubSeq(webhook_deliveries', 1, Len(webhook_deliveries)) = webhook_deliveries
                 /\ d.application_id = r.app_id
                 /\ (rows' # rows) <=> matches
                 /\ IF matches
                    THEN /\ rows' = Append(rows, rows'[Len(rows')])
                         /\ rows'[Len(rows')].application_id = r.app_id
                         /\ rows'[Len(rows')].status = "queued"
                         /\ d.status = "success"
                         /\ d.deployment_id = Some(Len(rows'))
                    ELSE /\ d.status = "skipped"
                         /\ d.deployment_id = None]_vars

\* C18: every push that passes verification and parses, for an enabled webhook
\* (the INSERT of the delivery not failing), records exactly one WebhookDelivery:
\* success when a deployment was triggered, skipped when the branch does not
\* match, failed when the branch matched and no deployment could be triggered,
\* the container engine being unavailable included.
C18_OneDeliveryPerPush ==
    [][\A r \in webhook_request' :
          (Handled /\ ValidPush(r) /\ r.delivery # "failed") =>
              /\ Len(webhook_deliveries') = Len(webhook_deliveries) + 1
              /\ LastDelivery(webhook_deliveries').status =
                    IF rows' # rows THEN "success"
                    ELSE IF The(parse_push(r.payload)) # GitBranch(r.app_id) THEN "skipped"
                    ELSE "failed"]_vars

\* C19: a request to an enabled webhook that passes verification (and parses,
\* the INSERT of the delivery not failing) is answered 200, whether the push
\* was deployed, skipped or its deployment could not be triggered.
C19_Always200 ==
    \A r \in webhook_request :
        (ValidPush(r) /\ r.delivery # "failed") => r.code = 200

\* C21: a request whose webhook is disabled is answered 403, one whose presented
\* signature or token fails verification is answered 401, and neither creates a
\* deployment nor records a WebhookDelivery: the deployments and the deliveries
\* are left as they were.
C21_RejectedLeavesNoTrace ==
    [][\A r \in webhook_request' :
          (Handled /\ r.app_id \in DOMAIN webhooks) =>
              /\ ~webhooks[r.app_id].enabled => r.code = 403
              /\ (webhooks[r.app_id].enabled /\ r.presented /\ ~r.verified) => r.code = 401
              /\ r.code \in {401, 403} =>
                    /\ rows' = rows
                    /\ task' = task
                    /\ webhook_deliveries' = webhook_deliveries]_vars

\* C21 witness: after a deployed push, a request with a wrong credential for
\* the deployed branch has been answered 401
C21_Witness ==
    /\ Len(rows) = 1
    /\ Len(webhook_deliveries) = 1
    /\ \E r \in webhook_request :
          /\ r.code = 401
          /\ r.payload = "push refs/heads/main"
          /\ r.app_id = "app1"
          /\ docker

\* C22: each application has at most one Domain row with is_primary = true,
\* after any sequence of add_domain, set_primary, remove_domain and deployments
\* registering the subdomain.
C22_AtMostOnePrimary ==
    \A app \in Apps : Cardinality(Primaries(domains, app)) <= 1

\* C23: set_primary(id) unsets the other domains of the application and sets
\* the target in one atomic step: the step in which a call unsets the primary
\* flags is the step that ends the call, and leaves the target the one primary
\* domain of its application.
C23_SetPrimaryAtomic ==
    [][\A c \in 1..MaxPrimaryCalls :
          (primary_calls[c].pc = "unset" /\ primary_calls'[c].pc # "unset") =>
              /\ primary_calls'[c].pc = "done"
              /\ Primaries(domains', primary_calls[c].application_id) = {primary_calls[c].id}]_vars

\* C24: each application has at most one HealthCheck row and at most one
\* DeployKey row, concurrent upserts and concurrent deploy-key regenerations
\* for one application included.
C24_OneOfEach ==
    \A app \in Apps :
        /\ Cardinality({i \in DOMAIN health_checks : health_checks[i].application_id = app}) <= 1
        /\ Cardinality({i \in DOMAIN deploy_keys : deploy_keys[i].application_id = app}) <= 1

\* C30: every stored HealthCheck row has interval_seconds, timeout_seconds,
\* healthy_threshold and unhealthy_threshold all >= 1, whatever integers the
\* configure_health_check requests carried.
C30_ThresholdsPositive ==
    \A i \in DOMAIN health_checks :
        /\ health_checks[i].interval_seconds >= 1
        /\ health_checks[i].timeout_seconds >= 1
        /\ health_checks[i].healthy_threshold >= 1
        /\ health_checks[i].unhealthy_threshold >= 1

\* C25: publishing never waits for a subscriber, and an overflow of the buffer
\* costs a slow subscriber only the oldest undelivered events: the subscriber
\* stays subscribed (only its socket or its client ends the connection) and is
\* handed events in publication order, every event after the dropped ones
\* included; the other subscribers are handed every event since they subscribed.
C25_OverflowDropsOnlyOldest ==
    [][/\ (published < MaxEvents => ENABLED Publish)
       /\ \A s \in Subscribers :
            LET sub == subscribers[s]
                after == subscribers'[s]
            IN sub.state = "connected" =>
                 /\ after.state = "closed" => after.cause \in {"socket", "client"}
                 /\ after.received # sub.received =>
                      /\ after.received =
                            Append(sub.received,
                                   IF Lagged(sub) THEN OldestRetained ELSE sub.next)
                      /\ after.next = after.received[Len(after.received)] + 1]_vars

\* C26: decrypt(encrypt(x, k), k) = x for every plaintext and key; decrypt
\* under another key is an error, and so is decrypt of a sealed value whose
\* bytes were altered or that is shorter than the nonce.
C26_SealRoundTrip ==
    \A s \in sealing : \A opened \in s.opened :
        /\ (s.tamper = "none" /\ s.key2 = s.key) => opened = Ok(s.plaintext)
        /\ s.key2 # s.key => ~opened.ok
        /\ s.tamper # "none" => ~opened.ok

\* C26 witness: a secret has been sealed and opened again under its key
C26_Witness ==
    \E s \in sealing :
        /\ s.plaintext = "secret"
        /\ s.tamper = "none"
        /\ s.key2 = s.key
        /\ s.opened = Some(Ok("secret"))

\* C27: a container created for a deployment that was then cancelled is stopped
\* and removed by the rolling swap of the next successful deployment of the
\* application: once a deployment triggered after the cancellation has ended
\* Ok (its own cleanup calls not failing), no container of a deployment that
\* is still cancelled is left.
C27_CancelledContainerReconciled ==
    \A d2 \in DOMAIN rows :
        (Exited(d2) /\ task[d2].result = "Ok" /\ task[d2].cleanup_failed = {})
            => \A d1 \in task[d2].cancelled_at_trigger :
                   rows[d1].status = "cancelled" => ~Alive(d1)

\* C28: every deployment that reaches running through its pipeline, for an
\* application with a port and with a proxy configured, has called
\* proxy.add_route for the application's subdomain during that deployment,
\* whether or not the Domain row existed before; and a failed add_route does
\* not keep the deployment from reaching running.
C28_RouteAddedEveryDeployment ==
    \A d \in DOMAIN rows :
        (/\ Exited(d) /\ task[d].result = "Ok"
         /\ CaddyConfigured /\ AppPort(rows[d].application_id) # NULL
         /\ dbFaults = 0)
            => task[d].add_route # "not called"

\* C29: after a retention run no sample recorded more than 24 hours before the
\* run is left in the store, and no sample recorded within the 24 hours before
\* the run has been deleted by it.
C29_Retention ==
    [][gc_runs' = gc_runs + 1 =>
          \A row \in container_stats :
              /\ RecordedAt(row) < clock - 24 => row \notin container_stats'
              /\ RecordedAt(row) >= clock - 24 => row \in container_stats']_vars

\* C31: every stored environment variable key is non-empty and made only of
\* characters of [A-Za-z0-9_], whatever keys create_application, add_env_var
\* and update_env_var were called with.
C31_StoredKeysWellFormed ==
    \A i \in DOMAIN environment_variables :
        /\ environment_variables[i].key # <<>>
        /\ \A j \in DOMAIN environment_variables[i].key :
               environment_variables[i].key[j] \in {"A", "7", "_"}

\* the restart_container calls of the ticks that recorded results i..j of app
RestartsIn(app, i, j) ==
    {k \in DOMAIN restarts[app] : restarts[app][k].at \in i..j}

\* results i..j of app are a run of unhealthy results that starts a streak
UnhealthyRun(app, i, j) ==
    /\ i <= j
    /\ \A k \in i..j : health_check_results[app][k] = "unhealthy"
    /\ i > 1 => health_check_results[app][i - 1] # "unhealthy"

\* C32: a restart does not reset the streak: once the streak has reached
\* unhealthy_threshold every further unhealthy tick (whose queries succeed)
\* restarts again, so a run of n >= unhealthy_threshold consecutive unhealthy
\* results has produced n - unhealthy_threshold + 1 restart attempts.
C32_RestartEveryTickOfStreak ==
    \A app \in Apps :
        health_errors = 0 =>
            \A i, j \in DOMAIN health_check_results[app] :
                (UnhealthyRun(app, i, j) /\ j - i + 1 >= unhealthy_threshold(app))
                    => Cardinality(RestartsIn(app, i, j))
                           = (j - i + 1) - unhealthy_threshold(app) + 1

\* the lines published for deployment d
LogLines(d) == {log_events[d][i] : i \in DOMAIN log_events[d]}

\* this step stops or removes the container of deployment p, or marks its row
\* rolled_back
Retires(p) ==
    \/ /\ containers[p] \in {"created", "running", "stopped"}
       /\ containers'[p] \in {"stopped", "removed"}
       /\ containers'[p] # containers[p]
    \/ /\ rows[p].status # "rolled_back"
       /\ rows'[p].status = "rolled_back"

\* C33: the previous deployment's container is stopped and removed and its row
\* marked rolled_back only by a pipeline whose own deployment has reached
\* deploying and whose container has been created, recorded and started: no
\* step retires the old container while the new one is not running.
C33_OldRetiredAfterNewStarted ==
    [][\A p \in DOMAIN rows :
          Retires(p) =>
              \E d \in DOMAIN task :
                  /\ d # p
                  /\ task[d].pc \in {"stop_old", "remove_old", "mark_old"}
                  /\ task'[d] # task[d]
                  /\ task[d].prev = Some(p)
                  /\ "Creating container..." \in LogLines(d)
                  /\ rows[d].container_id = Some(d)
                  /\ containers[d] = "running"]_vars

\* C33 witness: the second deployment runs, the first one's container is
\* removed and its row rolled_back
C33_Witness ==
    \E p, d \in DOMAIN rows :
        /\ task[d].prev = Some(p)
        /\ rows[p].status = "rolled_back"
        /\ containers[p] = "removed"
        /\ containers[d] = "running"
        /\ rows[d].status = "running"

\* C34: whenever the executor starts a container, its id is already in the
\* deployment row's container_id; and while a created container's id is not
\* recorded (set_container_id failed) the container is not started and the
\* task has ended.
C34_IdPersistedBeforeStart ==
    [][\A d \in DOMAIN rows' :
          /\ (containers'[d] = "running" /\ containers[d] # "running")
                => (d \in DOMAIN rows /\ rows[d].container_id = Some(d))
          /\ (containers'[d] \in {"created", "running"} /\ rows'[d].container_id = None)
                => (containers'[d] = "created" /\ task'[d].pc = "exited")]_vars

\* C34 witness: a container just started, its id recorded in its row
C34_Witness ==
    \E d \in DOMAIN rows :
        /\ task[d].pc = "swap"
        /\ containers[d] = "running"
        /\ rows[d].container_id = Some(d)

\* C35: the durable effects of a deployment (its status writes, build_log
\* appends and engine calls, in order) and its result are the same on a bus
\* without subscriber and on a bus whose subscriber is fast, lagging or gone: a
\* publish that finds no receiver, or overruns one, changes nothing.
C35_BusDoesNotAlterPipeline ==
    /\ twin_runs[1].effects = twin_runs[Observed].effects
    /\ twin_runs[1].pc = twin_runs[Observed].pc
    /\ twin_runs[1].result = twin_runs[Observed].result

\* C35 witness: the deployment completed on both buses; on the first every
\* send was refused, on the second none was and the receiver was overrun
C35_Witness ==
    /\ twin_runs[1].result = "Ok"
    /\ twin_runs[Observed].result = "Ok"
    /\ twin_channels[1].refused
    /\ ~twin_channels[Observed].refused
    /\ twin_channels[Observed].overrun

\* the errors that end a pipeline at clone, build, container create or start
EarlyErrors ==
    {"create_dir_all failed", "clone failed", "get_latest_commit failed",
     "build_image failed", "create_container failed", "start_container failed"}

\* C36: when the pipeline of a new deployment has ended with an error at clone,
\* build, container create or container start, it has not looked up, stopped or
\* removed a previous deployment, and the deployment that was running when it
\* was triggered still has status running and a running container, unless the
\* rolling update of another deployment has taken it.
C36_FailedPipelineLeavesOldAlone ==
    \A d \in DOMAIN task :
        (task[d].pc = "exited" /\ task[d].result \in EarlyErrors)
            => /\ task[d].prev = None
               /\ task[d].prev_container_id = None
               /\ task[d].cleanup_failed = {}
               /\ \A p \in task[d].running_at_trigger :
                     \/ rows[p].status = "running" /\ containers[p] = "running"
                     \/ \E o \in DOMAIN task : o # d /\ task[o].prev = Some(p)

\* C36 witness: the second deployment's container was created and failed to
\* start; the first deployment still runs
C36_Witness ==
    \E d, p \in DOMAIN task :
        /\ task[d].result = "start_container failed"
        /\ containers[d] = "created"
        /\ p \in task[d].running_at_trigger
        /\ rows[p].status = "running"
        /\ containers[p] = "running"

\* C37: whenever a deployment row has status rolled_back, its container has
\* been removed from the engine: it is neither present nor running.
C37_RolledBackContainerRemoved ==
    \A p \in DOMAIN rows :
        rows[p].status = "rolled_back" => ~Exists(p)

\* C38: after each tick of the health controller, the status carried by the
\* AppHealth event published last for an application is the status of the
\* application's latest persisted result.
C38_LastEventIsPersistedStatus ==
    \A app \in Apps :
        app_health_events[app] # <<>>
            => app_health_events[app][Len(app_health_events[app])]
                   = The(get_latest_status(health_check_results, app))

\* C39: the controller restarts a container only when the unhealthy results
\* that make up the streak were all recorded for that container: results of a
\* previous deployment's container never count towards restarting the
\* container of a newer deployment of the application.
C39_StreakOfSameContainer ==
    \A app \in Apps :
        \A k \in DOMAIN restarts[app] :
            \A i \in (restarts[app][k].at - unhealthy_threshold(app) + 1)..restarts[app][k].at :
                result_container_ids[app][i] = restarts[app][k].container_id

\* C40: the webhook ingress triggers a deployment only for applications whose
\* auto_deploy flag is true: a verified push on the configured branch of an
\* application with auto_deploy false creates no deployment.
C40_OnlyAutoDeployApps ==
    [][\A r \in webhook_request' :
          (Handled /\ rows' # rows) => AutoDeploy(r.app_id)]_vars
====
